---------------------------- MODULE Spec2Model ----------------------------
(***************************************************************************)
(* Verification model of the infographic-animator client: the chart pages  *)
(* (FileToChart, AnimateChart) and the ER diagram generator.               *)
(*                                                                         *)
(* Each subsystem has its own specification over the shared variables; the *)
(* variables of the other subsystems stay at their initial values.         *)
(***************************************************************************)
EXTENDS Integers, Sequences, FiniteSets, TLC

VARIABLES
    \* --- CSV line tokenizers (FileToChart.tsx, AnimateChart.tsx) ---
    csvLine,        \* the line handed to the tokenizers
    csvFields,      \* [FTC |-> fields or NotRun, AC |-> fields or NotRun]
    \* --- ER diagram view: CleanERDiagram (part_001) ---
    entities,               \* props.entities: number of entities, ids 1..entities
    relationships,          \* props.relationships: sequence of [fromEntity, toEntity]
    draggedItem,            \* NoItem or [id, type]
    isPanning,
    entityPositions,        \* entity id -> [x, y]
    relationshipPositions,  \* relationship index -> [x, y]
    zoom,
    pan,
    lastPanPoint,
    erLast,                 \* the handler that ran last
    erEvents,               \* number of user events handled so far
    \* --- chart instances of the two chart pages, each field indexed by page ---
    chartLive,       \* the charts created on the page's canvas and not destroyed
    chartCount,      \* number of charts created so far (chart ids 1..chartCount)
    chartInstance,   \* the page's chartInstance state: a chart id, or NoChart
    chartCalls,      \* createChart invocations awaiting the chart.js import
    chartCallCount,  \* number of createChart invocations started
    chartReadyTimers,\* FileToChart: pending 100 ms timers, by chart id
    isChartReady,    \* FileToChart: isChartReady
    chartOutcome,    \* how the invocation that finished last ended
    \* --- AnimateChart: animated export ---
    isExportingGif,
    exportProgress,
    exportRuns,      \* exportGif invocations inside their frame loop
    exportCount,     \* number of exportGif invocations started
    chartFrame,      \* what chartInstance.data.datasets[0].data holds
    statusMessage,   \* AnimateChart statusMessage: NoStatus or [message, type]
    statusTimers,    \* number of pending 5 s timers of showStatus
    htmlDownloads,   \* the invocations whose HTML file was downloaded
    cancelledRuns,   \* the invocations that were running when Cancel was clicked
    \* --- file upload of the two chart pages ---
    uploadPage,        \* the page that is mounted
    isLoading,         \* [page -> isLoading]
    fileLoads,         \* [page -> the loads under way: [load, kind, stage]]
    fileLoadCount,     \* [page -> number of files submitted]
    uploadedFiles,     \* FileToChart: file ids, most recent first
    selectedFile,      \* FileToChart: a file id, or NoFile
    selectedColumns,   \* [page -> the file whose columns are selected, or NoFile]
    chartData,         \* [page -> the file the chart data was made from, or NoFile]
    statusMessages,    \* FileToChart: the messages on display
    statusCount,       \* FileToChart: number of messages added so far
    currentSheetData,  \* AnimateChart: a file id, or NoFile
    excelWorkbook,     \* AnimateChart: a file id, or NoFile
    showExcelControls, \* AnimateChart
    \* --- ER diagram generator (part_001) ---
    inputText,         \* the description typed by the user
    parsed,            \* NotRun, or what parseTextToER(inputText) returned
    \* --- chart series aggregation (FileToChart.tsx, AnimateChart.tsx) ---
    records,           \* the records of the loaded file
    aggregated,        \* NotRun, or the aggregation that ran and what it returned
    \* --- typed values (FileToChart.tsx FileProcessor.parseValue) ---
    rawValue,          \* a value of the file: a JSON value, or the text of a CSV cell
    typedValue,        \* NotRun, or what parseValue gave for it, per file format
    \* --- column selection and chart data (FileToChart.tsx, AnimateChart.tsx) ---
    viewPage,          \* the chart page in use
    viewState,         \* its selected file, column selection, chart type, chart data
    \* --- records of a JSON text (FileToChart.tsx, AnimateChart.tsx) ---
    jsonText,          \* the text of a .json file
    jsonRecords,       \* NotRun, or what the page's reader gave for it, per page
    \* --- Google login button (GoogleLoginButton.tsx) ---
    authAttempts,      \* the login attempts: mode, stage, and the answer of the endpoint
    authCalls,         \* the calls of login, onSuccess and onError, in order
    authIsLoading,     \* isLoading of the button
    \* --- AnimateChart: playAnimation ---
    animation,         \* currentChartType, chartData and the animation settings
    instanceData,      \* chartInstance.data: labels and datasets[0].data
    animTimeouts,      \* the pending timeouts, in the order they are due
    animFrames,        \* the running animateValue loops, in the order they started
    animPlays,         \* number of clicks on Play Animation
    \* --- ER diagram generator (part_001) ---
    genInputText,      \* inputText of the generator
    isGenerating,      \* isGenerating
    generations,       \* the generateERDiagram calls that wait, with their text
    generationCount,   \* number of clicks on Generate
    generated,         \* entities, relationships and mermaidCode, and who set them
    clearedRuns        \* the generations that waited when Clear All was clicked

csvVars == <<csvLine, csvFields>>

erVars == <<entities, relationships, draggedItem, isPanning, entityPositions,
            relationshipPositions, zoom, pan, lastPanPoint, erLast, erEvents>>

chartVars == <<chartLive, chartCount, chartInstance, chartCalls, chartCallCount,
               chartReadyTimers, isChartReady, chartOutcome>>

exportVars == <<isExportingGif, exportProgress, exportRuns, exportCount,
                chartFrame, statusMessage, statusTimers, htmlDownloads, cancelledRuns>>

\* exportVars without the status message of the page
exportCore == <<isExportingGif, exportProgress, exportRuns, exportCount,
                chartFrame, htmlDownloads, cancelledRuns>>

uploadVars == <<uploadPage, isLoading, fileLoads, fileLoadCount, uploadedFiles,
                selectedFile, selectedColumns, chartData, statusMessages, statusCount,
                currentSheetData, excelWorkbook, showExcelControls>>

parseVars == <<inputText, parsed>>

aggVars == <<records, aggregated>>

valueVars == <<rawValue, typedValue>>

selectVars == <<viewPage, viewState>>

recordVars == <<jsonText, jsonRecords>>

loginVars == <<authAttempts, authCalls, authIsLoading>>

animVars == <<animation, instanceData, animTimeouts, animFrames, animPlays>>

genVars == <<genInputText, isGenerating, generations, generationCount, generated,
             clearedRuns>>

\* the subsystems up to the aggregation
coreVars == <<csvVars, erVars, chartVars, exportVars, uploadVars, parseVars, aggVars>>

\* the subsystems after the aggregation
moreVars == <<valueVars, selectVars, recordVars, loginVars, animVars, genVars>>

valueOthers == <<coreVars, selectVars, recordVars, loginVars, animVars, genVars>>
selectOthers == <<coreVars, valueVars, recordVars, loginVars, animVars, genVars>>
recordOthers == <<coreVars, valueVars, selectVars, loginVars, animVars, genVars>>
loginOthers == <<coreVars, valueVars, selectVars, recordVars, animVars, genVars>>
animOthers == <<coreVars, valueVars, selectVars, recordVars, loginVars, genVars>>
genOthers == <<coreVars, valueVars, selectVars, recordVars, loginVars, animVars>>

\* what the actions of one subsystem leave alone
csvOthers == <<erVars, chartVars, exportVars, uploadVars, parseVars, aggVars, moreVars>>
erOthers == <<csvVars, chartVars, exportVars, uploadVars, parseVars, aggVars, moreVars>>
chartOthers == <<csvVars, erVars, exportVars, uploadVars, parseVars, aggVars, moreVars>>
exportOthers == <<csvVars, erVars, chartVars, uploadVars, parseVars, aggVars, moreVars>>

vars == <<csvLine, csvFields, entities, relationships, draggedItem, isPanning,
          entityPositions, relationshipPositions, zoom, pan, lastPanPoint,
          erLast, erEvents, chartLive, chartCount, chartInstance, chartCalls,
          chartCallCount, chartReadyTimers, isChartReady, chartOutcome,
          isExportingGif, exportProgress, exportRuns, exportCount, chartFrame,
          statusMessage, statusTimers, htmlDownloads, cancelledRuns,
          uploadPage, isLoading, fileLoads, fileLoadCount, uploadedFiles,
          selectedFile, selectedColumns, chartData, statusMessages, statusCount,
          currentSheetData, excelWorkbook, showExcelControls, inputText, parsed,
          records, aggregated, rawValue, typedValue, viewPage, viewState,
          jsonText, jsonRecords, authAttempts, authCalls, authIsLoading,
          animation, instanceData, animTimeouts, animFrames, animPlays,
          genInputText, isGenerating, generations, generationCount, generated,
          clearedRuns>>

\* a result not computed yet (every tokenizer result has at least one field)
NotRun == <<>>

\* Body(value), with the value computed once
Once(value, Body(_)) == CHOOSE result \in {Body(x) : x \in {value}} : TRUE

-----------------------------------------------------------------------------
(* JavaScript strings: TLC strings, indexed from 1 *)

CharAt(s, i) == SubSeq(s, i, i)

IsSpace(c) == c \in {" ", "\t", "\r", "\n"}

RECURSIVE TrimStart(_)
TrimStart(s) ==
    IF Len(s) > 0 /\ IsSpace(CharAt(s, 1))
    THEN TrimStart(SubSeq(s, 2, Len(s)))
    ELSE s

RECURSIVE TrimEnd(_)
TrimEnd(s) ==
    IF Len(s) > 0 /\ IsSpace(CharAt(s, Len(s)))
    THEN TrimEnd(SubSeq(s, 1, Len(s) - 1))
    ELSE s

\* String.prototype.trim
Trim(s) == TrimEnd(TrimStart(s))

\* String.prototype.includes
Includes(s, sub) ==
    \E i \in 1..(Len(s) - Len(sub) + 1) : SubSeq(s, i, i + Len(sub) - 1) = sub

\* String.prototype.endsWith
EndsWith(s, suffix) ==
    /\ Len(suffix) <= Len(s)
    /\ SubSeq(s, Len(s) - Len(suffix) + 1, Len(s)) = suffix

\* all strings over the alphabet of at most n characters
RECURSIVE StringsUpTo(_, _)
StringsUpTo(alphabet, n) ==
    IF n = 0 THEN {""}
    ELSE LET shorter == StringsUpTo(alphabet, n - 1)
         IN  shorter \cup {s \o c : s \in shorter, c \in alphabet}

-----------------------------------------------------------------------------
(* CSV line tokenizers *)

Quote == "\""
Comma == ","

\* FileToChart.tsx FileProcessor.parseCSVLine: the loop body from index i
RECURSIVE FtcScan(_, _, _, _, _)
FtcScan(line, i, result, current, inQuotes) ==
    IF i > Len(line) THEN Append(result, Trim(current))
    ELSE
      LET char == CharAt(line, i)
          nextChar == IF i + 1 <= Len(line) THEN CharAt(line, i + 1) ELSE "undefined"
      IN  IF char = Quote /\ ~inQuotes
            THEN FtcScan(line, i + 1, result, current, TRUE)
          ELSE IF char = Quote /\ inQuotes
            THEN IF nextChar = Quote
                   THEN FtcScan(line, i + 2, result, current \o Quote, inQuotes)
                   ELSE FtcScan(line, i + 1, result, current, FALSE)
          ELSE IF char = Comma /\ ~inQuotes
            THEN FtcScan(line, i + 1, Append(result, Trim(current)), "", inQuotes)
          ELSE FtcScan(line, i + 1, result, current \o char, inQuotes)

\* a tokenizer that splits on every comma, quoted or not
SplitOnEveryComma(line) ==
    LET RECURSIVE Scan(_, _, _)
        Scan(i, result, current) ==
            IF i > Len(line) THEN Append(result, Trim(current))
            ELSE IF CharAt(line, i) = Comma
                   THEN Scan(i + 1, Append(result, Trim(current)), "")
                 ELSE IF CharAt(line, i) = Quote
                   THEN Scan(i + 1, result, current)
                 ELSE Scan(i + 1, result, current \o CharAt(line, i))
    IN  Scan(1, <<>>, "")

FtcParseCSVLine(line) == FtcScan(line, 1, <<>>, "", FALSE)

\* AnimateChart.tsx parseCSVLine: the loop body from index i
RECURSIVE AcScan(_, _, _, _, _)
AcScan(line, i, result, current, inQuotes) ==
    IF i > Len(line) THEN Append(result, Trim(current))
    ELSE
      LET char == CharAt(line, i)
      IN  IF char = Quote
            THEN AcScan(line, i + 1, result, current, ~inQuotes)
          ELSE IF char = Comma /\ ~inQuotes
            THEN AcScan(line, i + 1, Append(result, Trim(current)), "", inQuotes)
          ELSE AcScan(line, i + 1, result, current \o char, inQuotes)

AcParseCSVLine(line) == AcScan(line, 1, <<>>, "", FALSE)

MaxLineLen == 5

CsvAlphabet == {"a", Comma, Quote, " "}

\* the line of the spec's CSV example: "a,b",2
QuotedCommaLine == "\"a,b\",2"

CsvLines == StringsUpTo(CsvAlphabet, MaxLineLen) \cup {QuotedCommaLine, "a,b,2"}

CsvInit ==
    /\ csvLine \in CsvLines
    /\ csvFields = [FTC |-> NotRun, AC |-> NotRun]

CsvIdle ==
    /\ csvLine = ""
    /\ csvFields = [FTC |-> NotRun, AC |-> NotRun]

FtcTokenize ==
    /\ csvFields.FTC = NotRun
    /\ csvFields' = [csvFields EXCEPT !.FTC = FtcParseCSVLine(csvLine)]
    /\ UNCHANGED <<csvLine, csvOthers>>

AcTokenize ==
    /\ csvFields.AC = NotRun
    /\ csvFields' = [csvFields EXCEPT !.AC = AcParseCSVLine(csvLine)]
    /\ UNCHANGED <<csvLine, csvOthers>>

CsvNext == FtcTokenize \/ AcTokenize

-----------------------------------------------------------------------------
(* Exact arithmetic for the view transform: a rational is [n, d] with d > 0 *)
(* in lowest terms                                                          *)

Abs(i) == IF i < 0 THEN -i ELSE i

RECURSIVE GCD(_, _)
GCD(a, b) == IF b = 0 THEN a ELSE GCD(b, a % b)

Rat(n, d) ==
    LET g == GCD(Abs(n), Abs(d))
        sign == IF d < 0 THEN -1 ELSE 1
    IN  [n |-> sign * (n \div g), d |-> sign * (d \div g)]

RInt(i) == [n |-> i, d |-> 1]

LCM(a, b) == (a \div GCD(a, b)) * b

\* sums and comparisons over the least common denominator, products reduced
\* crosswise first, to keep the intermediate integers small
RAdd(a, b) ==
    LET l == LCM(a.d, b.d)
    IN  Rat(a.n * (l \div a.d) + b.n * (l \div b.d), l)
RNeg(a) == [n |-> -a.n, d |-> a.d]
RSub(a, b) == RAdd(a, RNeg(b))
RMul(a, b) ==
    LET g1 == GCD(Abs(a.n), b.d)
        g2 == GCD(Abs(b.n), a.d)
    IN  Rat((a.n \div g1) * (b.n \div g2), (a.d \div g2) * (b.d \div g1))
RInv(a) == IF a.n < 0 THEN [n |-> -a.d, d |-> -a.n] ELSE [n |-> a.d, d |-> a.n]
RDiv(a, b) == RMul(a, RInv(b))
RLe(a, b) ==
    LET l == LCM(a.d, b.d)
    IN  a.n * (l \div a.d) <= b.n * (l \div b.d)
RLt(a, b) == ~RLe(b, a)
RMin(a, b) == IF RLe(a, b) THEN a ELSE b
RMax(a, b) == IF RLe(a, b) THEN b ELSE a

\* Math.min / Math.max over a non-empty set of rationals
RMinOf(S) == CHOOSE a \in S : \A b \in S : RLe(a, b)
RMaxOf(S) == CHOOSE a \in S : \A b \in S : RLe(b, a)

\* Math.ceil(Math.sqrt(n))
CeilSqrt(n) == CHOOSE k \in 0..n : k * k >= n /\ (k = 0 \/ (k - 1) * (k - 1) < n)

-----------------------------------------------------------------------------
(* ER diagram view: CleanERDiagram *)

\* draggedItem === null
NoItem == [id |-> 0, type |-> "null"]

containerWidth == 900
containerHeight == 700

Point(x, y) == [x |-> x, y |-> y]

\* the layout effect's grid: entity ids 1..n to positions
GridPositions(n) ==
    LET cols == IF CeilSqrt(n) < 3 THEN CeilSqrt(n) ELSE 3
    IN  [id \in 1..n |->
            LET index == id - 1
                col == index % cols
                row == index \div cols
            IN  Point(RInt(100 + col * 520), RInt(100 + row * 420))]

\* the layout effect's relationship midpoints
MidPositions(rels, entPos) ==
    [r \in 1..Len(rels) |->
        LET fromPos == entPos[rels[r].fromEntity]
            toPos == entPos[rels[r].toEntity]
            midX == RAdd(RDiv(RAdd(fromPos.x, toPos.x), RInt(2)), RInt(80))
            midY == RAdd(RDiv(RAdd(fromPos.y, toPos.y), RInt(2)), RInt(10))
        IN  Point(RSub(midX, RInt(50)), RSub(midY, RInt(15)))]

Values(f) == {f[k] : k \in DOMAIN f}

\* { ...prev, [key]: value }
SetKey(prev, key, value) ==
    [k \in DOMAIN prev \cup {key} |-> IF k = key THEN value ELSE prev[k]]

\* resetViewToFit: the bounding box of the shapes
FitBounds(entPos, relPos) ==
    [minX |-> RMinOf({RSub(p.x, RInt(180)) : p \in Values(entPos)}
                     \cup {RSub(p.x, RInt(50)) : p \in Values(relPos)}),
     maxX |-> RMaxOf({RAdd(p.x, RInt(320)) : p \in Values(entPos)}
                     \cup {RAdd(p.x, RInt(150)) : p \in Values(relPos)}),
     minY |-> RMinOf({RSub(p.y, RInt(160)) : p \in Values(entPos)}
                     \cup {RSub(p.y, RInt(30)) : p \in Values(relPos)}),
     maxY |-> RMaxOf({RAdd(p.y, RInt(200)) : p \in Values(entPos)}
                     \cup {RAdd(p.y, RInt(60)) : p \in Values(relPos)})]

\* a fit that divides the content size by the container size
InvertedFitZoom(entPos, relPos) ==
    LET b == FitBounds(entPos, relPos)
        totalWidth == RAdd(RSub(b.maxX, b.minX), RInt(100))
        totalHeight == RAdd(RSub(b.maxY, b.minY), RInt(100))
    IN  RMin(RMin(RDiv(totalWidth, RInt(containerWidth)),
                  RDiv(totalHeight, RInt(containerHeight))), RInt(1))

\* resetViewToFit: optimalZoom
FitZoom(entPos, relPos) ==
    LET b == FitBounds(entPos, relPos)
        padding == 50
        totalWidth == RAdd(RSub(b.maxX, b.minX), RInt(padding * 2))
        totalHeight == RAdd(RSub(b.maxY, b.minY), RInt(padding * 2))
        zoomX == RDiv(RInt(containerWidth), totalWidth)
        zoomY == RDiv(RInt(containerHeight), totalHeight)
    IN  RMin(RMin(zoomX, zoomY), RInt(1))

\* resetViewToFit: the centring pan
FitPan(entPos, relPos) ==
    LET b == FitBounds(entPos, relPos)
        optimalZoom == FitZoom(entPos, relPos)
        totalWidth == RAdd(RSub(b.maxX, b.minX), RInt(100))
        totalHeight == RAdd(RSub(b.maxY, b.minY), RInt(100))
        centerX == RSub(RDiv(RSub(RInt(containerWidth), RMul(totalWidth, optimalZoom)), RInt(2)),
                        RMul(b.minX, optimalZoom))
        centerY == RSub(RDiv(RSub(RInt(containerHeight), RMul(totalHeight, optimalZoom)), RInt(2)),
                        RMul(b.minY, optimalZoom))
    IN  Point(centerX, centerY)

MaxEntities == 5

\* a large diagram: seventeen rows of the layout grid
ManyEntities == 49
MaxErEvents == 3

\* props.relationships the parent can pass for n entities
RelationshipLists(n) ==
    {<<>>, <<[fromEntity |-> n, toEntity |-> 1], [fromEntity |-> 1, toEntity |-> 1]>>}

LeftButton == 0
RightButton == 2
Buttons == {LeftButton, RightButton}

\* clientX / clientY of the pointer events; the svg's bounding rect starts at (0, 0)
MousePoints == {Point(200, 150), Point(640, 500)}

ErInit ==
    /\ entities \in 1..MaxEntities
    /\ relationships \in RelationshipLists(entities)
    /\ draggedItem = NoItem
    /\ isPanning = FALSE
    /\ entityPositions = <<>>
    /\ relationshipPositions = <<>>
    /\ zoom = Rat(8, 10)
    /\ pan = Point(RInt(0), RInt(0))
    /\ lastPanPoint = Point(0, 0)
    /\ erLast = "mount"
    /\ erEvents = 0

\* the view is mounted with a large diagram
ErLargeInit ==
    /\ entities = ManyEntities
    /\ relationships \in RelationshipLists(entities)
    /\ draggedItem = NoItem
    /\ isPanning = FALSE
    /\ entityPositions = <<>>
    /\ relationshipPositions = <<>>
    /\ zoom = Rat(8, 10)
    /\ pan = Point(RInt(0), RInt(0))
    /\ lastPanPoint = Point(0, 0)
    /\ erLast = "mount"
    /\ erEvents = 0

ErIdle ==
    /\ entities = 0
    /\ relationships = <<>>
    /\ draggedItem = NoItem
    /\ isPanning = FALSE
    /\ entityPositions = <<>>
    /\ relationshipPositions = <<>>
    /\ zoom = Rat(8, 10)
    /\ pan = Point(RInt(0), RInt(0))
    /\ lastPanPoint = Point(0, 0)
    /\ erLast = "mount"
    /\ erEvents = 0

\* the layout effect with the props n, rels
RunLayoutEffect(n, rels) ==
    LET newEntityPositions == GridPositions(n)
        newRelationshipPositions == MidPositions(rels, newEntityPositions)
    IN  /\ entityPositions' = newEntityPositions
        /\ relationshipPositions' = newRelationshipPositions
        /\ zoom' = FitZoom(newEntityPositions, newRelationshipPositions)
        /\ pan' = FitPan(newEntityPositions, newRelationshipPositions)
        /\ erLast' = "layout"

\* the effect after the first render
LayoutEffect ==
    /\ UNCHANGED erOthers
    /\ erLast = "mount"
    /\ RunLayoutEffect(entities, relationships)
    /\ UNCHANGED <<entities, relationships, draggedItem, isPanning, lastPanPoint, erEvents>>

Handled == erLast # "mount" /\ erEvents < MaxErEvents

\* the parent passes new entities and relationships; the effect runs again
PropsChange ==
    /\ UNCHANGED erOthers
    /\ Handled
    /\ \E n \in 1..MaxEntities : \E rels \in RelationshipLists(n) :
          /\ <<n, rels>> # <<entities, relationships>>
          /\ entities' = n
          /\ relationships' = rels
          /\ RunLayoutEffect(n, rels)
    /\ erEvents' = erEvents + 1
    /\ UNCHANGED <<draggedItem, isPanning, lastPanPoint>>

\* handlePanStart's state change for a pointer-down that reaches the svg
PanStartUpdate(button, point) ==
    IF button = LeftButton /\ draggedItem = NoItem
    THEN /\ isPanning' = TRUE
         /\ lastPanPoint' = point
    ELSE UNCHANGED <<isPanning, lastPanPoint>>

Shapes ==
    {[id |-> e, type |-> "entity"] : e \in 1..entities}
    \cup {[id |-> r, type |-> "relationship"] : r \in 1..Len(relationships)}

\* pointer-down on an entity rectangle or relationship diamond: handleMouseDown,
\* and, when propagation is not stopped, the svg's handlePanStart
HandleMouseDown ==
    /\ UNCHANGED erOthers
    /\ Handled
    /\ \E shape \in Shapes, button \in Buttons, point \in MousePoints :
          IF button = LeftButton
          THEN /\ draggedItem' = shape
               /\ UNCHANGED <<isPanning, lastPanPoint>>
          ELSE /\ UNCHANGED draggedItem
               /\ PanStartUpdate(button, point)
    /\ erLast' = "mouseDown"
    /\ erEvents' = erEvents + 1
    /\ UNCHANGED <<entities, relationships, entityPositions, relationshipPositions, zoom, pan>>

\* pointer-down on the background
HandlePanStart ==
    /\ UNCHANGED erOthers
    /\ Handled
    /\ \E button \in Buttons, point \in MousePoints : PanStartUpdate(button, point)
    /\ erLast' = "panStart"
    /\ erEvents' = erEvents + 1
    /\ UNCHANGED <<entities, relationships, draggedItem, entityPositions,
                   relationshipPositions, zoom, pan>>

HandleMouseMove ==
    /\ UNCHANGED erOthers
    /\ Handled
    /\ \E point \in MousePoints :
          IF draggedItem # NoItem /\ ~isPanning
          THEN LET x == RDiv(RSub(RInt(point.x), pan.x), zoom)
                   y == RDiv(RSub(RInt(point.y), pan.y), zoom)
               IN  /\ IF draggedItem.type = "entity"
                      THEN /\ entityPositions' =
                                SetKey(entityPositions, draggedItem.id,
                                       Point(RSub(x, RInt(110)), RSub(y, RInt(30))))
                           /\ UNCHANGED relationshipPositions
                      ELSE /\ relationshipPositions' =
                                SetKey(relationshipPositions, draggedItem.id,
                                       Point(RSub(x, RInt(50)), RSub(y, RInt(15))))
                           /\ UNCHANGED entityPositions
                   /\ UNCHANGED <<pan, lastPanPoint>>
          ELSE IF isPanning
          THEN /\ pan' = Point(RAdd(pan.x, RInt(point.x - lastPanPoint.x)),
                               RAdd(pan.y, RInt(point.y - lastPanPoint.y)))
               /\ lastPanPoint' = point
               /\ UNCHANGED <<entityPositions, relationshipPositions>>
          ELSE UNCHANGED <<entityPositions, relationshipPositions, pan, lastPanPoint>>
    /\ erLast' = "mouseMove"
    /\ erEvents' = erEvents + 1
    /\ UNCHANGED <<entities, relationships, draggedItem, isPanning, zoom>>

\* pointer-up, or the pointer leaving the svg
HandleMouseUp ==
    /\ UNCHANGED erOthers
    /\ Handled
    /\ draggedItem' = NoItem
    /\ isPanning' = FALSE
    /\ erLast' = "mouseUp"
    /\ erEvents' = erEvents + 1
    /\ UNCHANGED <<entities, relationships, entityPositions, relationshipPositions,
                   zoom, pan, lastPanPoint>>

\* the Reset View button
ResetViewClick ==
    /\ UNCHANGED erOthers
    /\ Handled
    /\ zoom' = FitZoom(entityPositions, relationshipPositions)
    /\ pan' = FitPan(entityPositions, relationshipPositions)
    /\ erLast' = "resetView"
    /\ erEvents' = erEvents + 1
    /\ UNCHANGED <<entities, relationships, draggedItem, isPanning, entityPositions,
                   relationshipPositions, lastPanPoint>>

\* Math.max(lo, Math.min(hi, z))
Clamp(lo, hi, z) == RMax(lo, RMin(hi, z))

\* the mouse wheel over the svg
HandleWheel ==
    /\ UNCHANGED erOthers
    /\ Handled
    /\ \E deltaYPositive \in BOOLEAN, point \in MousePoints :
          LET delta == IF deltaYPositive THEN Rat(9, 10) ELSE Rat(11, 10)
              newZoom == Clamp(Rat(1, 10), RInt(3), RMul(zoom, delta))
              zoomFactor == RDiv(newZoom, zoom)
              mouseX == RInt(point.x)
              mouseY == RInt(point.y)
          IN  /\ pan' = Point(RSub(mouseX, RMul(RSub(mouseX, pan.x), zoomFactor)),
                              RSub(mouseY, RMul(RSub(mouseY, pan.y), zoomFactor)))
              /\ zoom' = newZoom
    /\ erLast' = "wheel"
    /\ erEvents' = erEvents + 1
    /\ UNCHANGED <<entities, relationships, draggedItem, isPanning, entityPositions,
                   relationshipPositions, lastPanPoint>>

\* the Zoom In button
ZoomInClick ==
    /\ UNCHANGED erOthers
    /\ Handled
    /\ zoom' = RMin(RInt(3), RMul(zoom, Rat(12, 10)))
    /\ erLast' = "zoomIn"
    /\ erEvents' = erEvents + 1
    /\ UNCHANGED <<entities, relationships, draggedItem, isPanning, entityPositions,
                   relationshipPositions, pan, lastPanPoint>>

\* the Zoom Out button
ZoomOutClick ==
    /\ UNCHANGED erOthers
    /\ Handled
    /\ zoom' = RMax(Rat(1, 10), RMul(zoom, Rat(8, 10)))
    /\ erLast' = "zoomOut"
    /\ erEvents' = erEvents + 1
    /\ UNCHANGED <<entities, relationships, draggedItem, isPanning, entityPositions,
                   relationshipPositions, pan, lastPanPoint>>

ErNext ==
    \/ LayoutEffect
    \/ PropsChange
    \/ HandleMouseDown
    \/ HandlePanStart
    \/ HandleMouseMove
    \/ HandleMouseUp
    \/ ResetViewClick
    \/ HandleWheel
    \/ ZoomInClick
    \/ ZoomOutClick

-----------------------------------------------------------------------------
(* Chart instances: createChart on the FileToChart and AnimateChart pages *)

Pages == {"FTC", "AC"}

\* chartInstance === null
NoChart == 0

MaxCreateCalls == 3

\* chart.js: Chart.getChart(canvas), the live chart bound to the canvas
GetChart(live) ==
    IF live = {} THEN NoChart ELSE CHOOSE c \in live : \A other \in live : other <= c

\* chart.js: chart.destroy()
Destroy(live, chart) == live \ {chart}

\* a createChart that destroys only the chart held in its chartInstance state
OnlyCapturedDestroyed(live, captured) == Destroy(live, captured)

\* createChart: chartInstance.destroy(), then Chart.getChart(canvas)?.destroy()
DestroyExisting(live, captured) ==
    LET afterState == Destroy(live, captured)
    IN  Destroy(afterState, GetChart(afterState))

ChartInit ==
    /\ chartLive = [p \in Pages |-> {}]
    /\ chartCount = [p \in Pages |-> 0]
    /\ chartInstance = [p \in Pages |-> NoChart]
    /\ chartCalls = [p \in Pages |-> {}]
    /\ chartCallCount = [p \in Pages |-> 0]
    /\ chartReadyTimers = {}
    /\ isChartReady = FALSE
    /\ chartOutcome = [p \in Pages |-> "none"]

ChartIdle == ChartInit

\* createChart(data) up to its await: the invocation captures the chartInstance
\* of the render it was called from
CallCreateChart(page) ==
    /\ chartCallCount[page] < MaxCreateCalls
    /\ chartCallCount' = [chartCallCount EXCEPT ![page] = @ + 1]
    /\ chartCalls' = [chartCalls EXCEPT ![page] =
                        @ \cup {[call |-> chartCallCount[page] + 1,
                                 captured |-> chartInstance[page]]}]
    /\ isChartReady' = IF page = "FTC" THEN FALSE ELSE isChartReady
    /\ UNCHANGED <<chartLive, chartCount, chartInstance, chartReadyTimers, chartOutcome>>

\* createChart after the import resolved, to its end. contextAvailable is the
\* outcome of canvas.getContext('2d').
ResumeCreateChart(page, invocation, contextAvailable) ==
    LET captured == invocation.captured
        cleared == IF captured # NoChart THEN NoChart ELSE chartInstance[page]
        remaining == DestroyExisting(chartLive[page], captured)
        newChart == chartCount[page] + 1
        \* chart.js: new Chart(...) throws when the canvas is already in use
        canvasInUse == remaining # {}
        created == contextAvailable /\ ~canvasInUse
        \* AnimateChart sets chartInstance at once; FileToChart from the timer
        newState == IF created /\ page = "AC" THEN newChart ELSE cleared
        \* AnimateChart: the cleanup of the [chartInstance] effect destroys the
        \* chart of the previous render when chartInstance changed
        cleanedUp == IF page = "AC" /\ newState # chartInstance[page]
                     THEN {chartInstance[page]} ELSE {}
    IN  /\ chartCalls' = [chartCalls EXCEPT ![page] = @ \ {invocation}]
        /\ chartInstance' = [chartInstance EXCEPT ![page] = newState]
        /\ chartLive' = [chartLive EXCEPT ![page] =
                            (IF created THEN remaining \cup {newChart} ELSE remaining)
                            \ cleanedUp]
        /\ chartCount' = [chartCount EXCEPT ![page] = IF created THEN newChart ELSE @]
        /\ chartReadyTimers' = IF created /\ page = "FTC"
                               THEN chartReadyTimers \cup {newChart}
                               ELSE chartReadyTimers
        /\ chartOutcome' = [chartOutcome EXCEPT ![page] =
                               IF ~contextAvailable THEN "no-context"
                               ELSE IF canvasInUse THEN "canvas-in-use"
                               ELSE "created"]
        \* FileToChart's catch block: setIsChartReady(false)
        /\ isChartReady' = IF page = "FTC" /\ ~created THEN FALSE ELSE isChartReady
        /\ UNCHANGED chartCallCount

FtcCreateChart ==
    /\ UNCHANGED chartOthers
    /\ CallCreateChart("FTC")

FtcCreateChartResume ==
    /\ UNCHANGED chartOthers
    /\ \E invocation \in chartCalls["FTC"], contextAvailable \in BOOLEAN :
          ResumeCreateChart("FTC", invocation, contextAvailable)

\* FileToChart createChart's setTimeout(..., 100) callback
FtcChartReadyTimer ==
    /\ UNCHANGED chartOthers
    /\ \E chart \in chartReadyTimers :
          /\ chartReadyTimers' = chartReadyTimers \ {chart}
          /\ chartInstance' = [chartInstance EXCEPT !["FTC"] = chart]
          /\ isChartReady' = TRUE
    /\ UNCHANGED <<chartLive, chartCount, chartCalls, chartCallCount, chartOutcome>>

\* FileToChart selectFile(file): setIsChartReady(false), the chartInstance of
\* the current render is destroyed and set to null
FtcSelectFileChart ==
    /\ UNCHANGED chartOthers
    /\ isChartReady' = FALSE
    /\ chartLive' = [chartLive EXCEPT !["FTC"] = Destroy(@, chartInstance["FTC"])]
    /\ chartInstance' = [chartInstance EXCEPT !["FTC"] = NoChart]
    /\ UNCHANGED <<chartCount, chartCalls, chartCallCount, chartReadyTimers, chartOutcome>>

\* FileToChart deleteFile(fileId) of the selected file: the chartInstance of
\* the current render is destroyed and set to null, isChartReady is kept
FtcDeleteFileChart ==
    /\ UNCHANGED chartOthers
    /\ chartLive' = [chartLive EXCEPT !["FTC"] = Destroy(@, chartInstance["FTC"])]
    /\ chartInstance' = [chartInstance EXCEPT !["FTC"] = NoChart]
    /\ UNCHANGED <<chartCount, chartCalls, chartCallCount, chartReadyTimers,
                   isChartReady, chartOutcome>>

AcCreateChart ==
    /\ UNCHANGED chartOthers
    /\ CallCreateChart("AC")

AcCreateChartResume ==
    /\ UNCHANGED chartOthers
    /\ \E invocation \in chartCalls["AC"], contextAvailable \in BOOLEAN :
          ResumeCreateChart("AC", invocation, contextAvailable)

ChartNext ==
    \/ FtcCreateChart
    \/ FtcCreateChartResume
    \/ FtcChartReadyTimer
    \/ AcCreateChart
    \/ AcCreateChartResume

\* the FileToChart page: chart creation together with the file list
FtcChartNext ==
    \/ FtcCreateChart
    \/ FtcCreateChartResume
    \/ FtcChartReadyTimer
    \/ FtcSelectFileChart
    \/ FtcDeleteFileChart

-----------------------------------------------------------------------------
(* AnimateChart: animated export (exportGif, Cancel Export). The page holds  *)
(* a chart instance and chart data throughout.                               *)

frames == 6

MaxExports == 2

\* statusMessage === null
NoStatus == [message |-> "", type |-> "null"]

\* Math.round((frame / frames) * 60)
FrameProgress(frame) == (frame * 60 * 2 + frames) \div (frames * 2)

\* showStatus: the timers it leaves pending after setting the message
TimersAfterStatus(timers, type) ==
    IF type \in {"success", "warning"} THEN timers + 1 ELSE timers

ExportInit ==
    /\ isExportingGif = FALSE
    /\ exportProgress = 0
    /\ exportRuns = {}
    /\ exportCount = 0
    /\ chartFrame = "original"
    /\ statusMessage = NoStatus
    /\ statusTimers = 0
    /\ htmlDownloads = {}
    /\ cancelledRuns = {}

ExportIdle == ExportInit

\* exportGif up to the first await: frame 0 is put on the chart
ExportGif ==
    /\ UNCHANGED exportOthers
    /\ ~isExportingGif
    /\ exportCount < MaxExports
    /\ isExportingGif' = TRUE
    /\ exportProgress' = 0
    /\ exportCount' = exportCount + 1
    /\ exportRuns' = exportRuns \cup {[run |-> exportCount + 1, frame |-> 0]}
    /\ chartFrame' = <<exportCount + 1, 0>>
    /\ statusMessage' = [message |-> "Capturing animation frames...", type |-> "warning"]
    /\ statusTimers' = TimersAfterStatus(TimersAfterStatus(statusTimers, "warning"), "warning")
    /\ UNCHANGED <<htmlDownloads, cancelledRuns>>

\* exportGif's for loop: does the run go on to another frame
LoopContinues(r) == r.frame + 1 < frames

\* exportGif after one 300 ms wait: the frame is captured, then either the next
\* frame is put on the chart or the loop is left and the function runs to its end
ExportGifFrame ==
    /\ UNCHANGED exportOthers
    /\ \E r \in exportRuns, captureFails \in BOOLEAN :
        IF captureFails
        THEN \* catch, then finally
             /\ exportRuns' = exportRuns \ {r}
             /\ statusMessage' = [message |-> "Failed to export animation.", type |-> "error"]
             /\ isExportingGif' = FALSE
             /\ exportProgress' = 0
             /\ chartFrame' = "original"
             /\ UNCHANGED <<statusTimers, htmlDownloads>>
        ELSE IF LoopContinues(r)
        THEN /\ exportRuns' = (exportRuns \ {r}) \cup {[r EXCEPT !.frame = @ + 1]}
             /\ exportProgress' = FrameProgress(r.frame)
             /\ chartFrame' = <<r.run, r.frame + 1>>
             /\ UNCHANGED <<isExportingGif, statusMessage, statusTimers, htmlDownloads>>
        ELSE \* the last frame: build the HTML, download it, then finally
             /\ exportRuns' = exportRuns \ {r}
             /\ htmlDownloads' = htmlDownloads \cup {r.run}
             /\ isExportingGif' = FALSE
             /\ exportProgress' = 0
             /\ statusMessage' = [message |-> "Animated chart exported as HTML file!",
                                  type |-> "success"]
             /\ statusTimers' = TimersAfterStatus(TimersAfterStatus(statusTimers, "warning"),
                                                  "success")
             /\ chartFrame' = "original"
    /\ UNCHANGED <<exportCount, cancelledRuns>>

\* the Cancel Export button, rendered while isExportingGif
CancelExport ==
    /\ UNCHANGED exportOthers
    /\ isExportingGif
    /\ isExportingGif' = FALSE
    /\ exportProgress' = 0
    /\ statusMessage' = [message |-> "GIF export cancelled", type |-> "warning"]
    /\ statusTimers' = TimersAfterStatus(statusTimers, "warning")
    /\ chartFrame' = "original"
    /\ cancelledRuns' = cancelledRuns \cup {r.run : r \in exportRuns}
    /\ UNCHANGED <<exportRuns, exportCount, htmlDownloads>>

\* a 5 s timer of showStatus fires
StatusTimer ==
    /\ UNCHANGED exportOthers
    /\ statusTimers > 0
    /\ statusTimers' = statusTimers - 1
    /\ statusMessage' = NoStatus
    /\ UNCHANGED <<isExportingGif, exportProgress, exportRuns, exportCount, chartFrame,
                   htmlDownloads, cancelledRuns>>

ExportNext ==
    \/ ExportGif
    \/ ExportGifFrame
    \/ CancelExport
    \/ StatusTimer

-----------------------------------------------------------------------------
(* Small helpers *)

Min(a, b) == IF a <= b THEN a ELSE b

-----------------------------------------------------------------------------
(* ER diagram generator: parseTextToER (part_001)                          *)

LowerLetters == "abcdefghijklmnopqrstuvwxyz"

UpperLetters == "ABCDEFGHIJKLMNOPQRSTUVWXYZ"

Digits == "0123456789"

\* String.prototype.indexOf for a one-character string, 1-based; 0 when absent
IndexOfChar(s, c) ==
    LET hits == {i \in 1..Len(s) : CharAt(s, i) = c}
    IN  IF hits = {} THEN 0 ELSE CHOOSE i \in hits : \A j \in hits : i <= j

\* String.prototype.indexOf, 1-based; 0 when absent
IndexOf(s, sub) ==
    LET hits == {i \in 1..(Len(s) - Len(sub) + 1) : SubSeq(s, i, i + Len(sub) - 1) = sub}
    IN  IF hits = {} THEN 0 ELSE CHOOSE i \in hits : \A j \in hits : i <= j

LowerChar(c) ==
    LET i == IndexOfChar(UpperLetters, c)
    IN  IF i = 0 THEN c ELSE CharAt(LowerLetters, i)

UpperChar(c) ==
    LET i == IndexOfChar(LowerLetters, c)
    IN  IF i = 0 THEN c ELSE CharAt(UpperLetters, i)

\* String.prototype.toLowerCase, character by character
RECURSIVE ToLowerCase(_)
ToLowerCase(s) ==
    IF Len(s) <= 1 THEN LowerChar(s)
    ELSE LET half == Len(s) \div 2
         IN  ToLowerCase(SubSeq(s, 1, half)) \o ToLowerCase(SubSeq(s, half + 1, Len(s)))

\* String.prototype.toUpperCase, character by character
RECURSIVE ToUpperCase(_)
ToUpperCase(s) ==
    IF Len(s) <= 1 THEN UpperChar(s)
    ELSE LET half == Len(s) \div 2
         IN  ToUpperCase(SubSeq(s, 1, half)) \o ToUpperCase(SubSeq(s, half + 1, Len(s)))

\* s.replace(/c/g, to) for a one-character c
RECURSIVE ReplaceAll(_, _, _)
ReplaceAll(s, c, to) ==
    IF Len(s) <= 1 THEN (IF s = c THEN to ELSE s)
    ELSE LET half == Len(s) \div 2
         IN  ReplaceAll(SubSeq(s, 1, half), c, to)
             \o ReplaceAll(SubSeq(s, half + 1, Len(s)), c, to)

\* s.replace(sub, '') with a string pattern: the first occurrence only
RemoveFirst(s, sub) ==
    LET i == IndexOf(s, sub)
    IN  IF i = 0 THEN s ELSE SubSeq(s, 1, i - 1) \o SubSeq(s, i + Len(sub), Len(s))

\* s.split(c) for a one-character separator
RECURSIVE Split(_, _)
Split(s, c) ==
    LET i == IndexOfChar(s, c)
    IN  IF i = 0 THEN <<s>>
        ELSE <<SubSeq(s, 1, i - 1)>> \o Split(SubSeq(s, i + 1, Len(s)), c)

\* the regular expression class \w
IsWordChar(c) ==
    \/ c = "_"
    \/ IndexOfChar(LowerLetters, c) # 0
    \/ IndexOfChar(UpperLetters, c) # 0
    \/ IndexOfChar(Digits, c) # 0

\* the last index of the longest run of \w that starts at i; i - 1 when empty
RECURSIVE WordEnd(_, _)
WordEnd(s, i) ==
    IF i <= Len(s) /\ IsWordChar(CharAt(s, i)) THEN WordEnd(s, i + 1) ELSE i - 1

\* the first index of the run of \w that ends at j
RECURSIVE WordStart(_, _)
WordStart(s, j) ==
    IF j > 1 /\ IsWordChar(CharAt(s, j - 1)) THEN WordStart(s, j - 1) ELSE j

\* the last index of the longest run of \s that starts at i; i - 1 when empty
RECURSIVE SpaceEnd(_, _)
SpaceEnd(s, i) ==
    IF i <= Len(s) /\ IsSpace(CharAt(s, i)) THEN SpaceEnd(s, i + 1) ELSE i - 1

\* the index before the run of \s that ends at j
RECURSIVE BeforeSpaces(_, _)
BeforeSpaces(s, j) ==
    IF j >= 1 /\ IsSpace(CharAt(s, j)) THEN BeforeSpaces(s, j - 1) ELSE j

\* the literal lit stands in s at index i
StartsAt(s, i, lit) ==
    /\ i >= 1
    /\ i + Len(lit) - 1 <= Len(s)
    /\ SubSeq(s, i, i + Len(lit) - 1) = lit

NoMatch == [matched |-> FALSE]

SetMin(S) == CHOOSE x \in S : \A y \in S : x <= y

SetMax(S) == CHOOSE x \in S : \A y \in S : y <= x

\* trimmedLine.match(/(\w+)\s*table\s*(?:\((.*)\))?/): the leftmost match, the
\* word as long as it can be, the parenthesis closed by the last ')' of the line
TableMatch(line) ==
    LET \* the optional group, from the parenthesis at open to the last ')'
        Group(open, closes) ==
            IF StartsAt(line, open, "(") /\ closes # {}
            THEN SubSeq(line, open + 1, SetMax(closes) - 1)
            ELSE ""
        AttributeString(open) ==
            Group(open, {c \in (open + 1)..Len(line) : CharAt(line, c) = ")"})
        \* the word that starts at first and stands before the "table" at t
        Matched(first, t) ==
            [matched |-> TRUE,
             name |-> SubSeq(line, first, BeforeSpaces(line, t - 1)),
             attributeString |-> AttributeString(SpaceEnd(line, t + 5) + 1)]
        Longest(tables, first) ==
            Matched(first,
                    SetMax({u \in tables : WordStart(line, BeforeSpaces(line, u - 1)) = first}))
        Leftmost(tables) ==
            IF tables = {} THEN NoMatch
            ELSE Longest(tables,
                         SetMin({WordStart(line, BeforeSpaces(line, t - 1)) : t \in tables}))
    IN  \* where "table" stands after a word and optional blanks
        Leftmost({t \in 1..Len(line) :
                    /\ StartsAt(line, t, "table")
                    /\ BeforeSpaces(line, t - 1) >= 1
                    /\ IsWordChar(CharAt(line, BeforeSpaces(line, t - 1)))})

\* the attribute pushed for one entry of the parenthesised list
ParseAttribute(attr) ==
    [name |-> ReplaceAll(attr, " ", "_"),
     type |-> IF Includes(attr, "id") THEN "int"
              ELSE IF Includes(attr, "date") \/ Includes(attr, "time") THEN "date"
              ELSE IF Includes(attr, "price") \/ Includes(attr, "amount")
                      \/ Includes(attr, "budget") THEN "decimal"
              ELSE IF Includes(attr, "count") \/ Includes(attr, "quantity")
                      \/ Includes(attr, "stock") \/ Includes(attr, "rating") THEN "int"
              ELSE IF Includes(attr, "email") THEN "varchar(255)"
              ELSE IF Includes(attr, "phone") THEN "varchar(20)"
              ELSE IF Includes(attr, "address") THEN "text"
              ELSE IF Includes(attr, "status") THEN "enum"
              ELSE "string",
     isPrimaryKey |-> EndsWith(attr, "id") /\ ~Includes(attr, "_id"),
     isForeignKey |-> Includes(attr, "_id") /\ attr # "id"]

\* attributeString.split(',').map(trim), the empty entries skipped
RECURSIVE ParseAttributes(_)
ParseAttributes(attrs) ==
    IF attrs = <<>> THEN <<>>
    ELSE LET attr == Trim(Head(attrs))
         IN  (IF attr = "" THEN <<>> ELSE <<ParseAttribute(attr)>>)
             \o ParseAttributes(Tail(attrs))

\* entityMap[id] = entity: a known key keeps its place, a new one goes last
PutEntity(entityMap, entity) ==
    IF \E i \in 1..Len(entityMap) : entityMap[i].id = entity.id
    THEN [i \in 1..Len(entityMap) |->
            IF entityMap[i].id = entity.id THEN entity ELSE entityMap[i]]
    ELSE Append(entityMap, entity)

\* phase 1, one line
ParseEntityLine(entityMap, line) ==
    LET Put(tableMatch) ==
            IF ~tableMatch.matched THEN entityMap
            ELSE PutEntity(entityMap,
                     [id |-> ToLowerCase(tableMatch.name),
                      name |-> ReplaceAll(ToUpperCase(tableMatch.name), "_", " "),
                      attributes |->
                          IF tableMatch.attributeString = "" THEN <<>>
                          ELSE ParseAttributes(Split(tableMatch.attributeString, ","))])
    IN  Put(TableMatch(Trim(line)))

\* phase 1
RECURSIVE ParseEntities(_, _)
ParseEntities(entityMap, lines) ==
    IF lines = <<>> THEN entityMap
    ELSE ParseEntities(ParseEntityLine(entityMap, Head(lines)), Tail(lines))

\* entityMap[name] is set
HasEntity(entityMap, name) == \E i \in 1..Len(entityMap) : entityMap[i].id = name

\* the verb alternatives of the explicit relationship pattern, in order
ExplicitVerbs ==
    <<"enrolls in", "teach", "schedule", "provide", "work in", "offer", "place",
      "contain", "write", "belong to">>

\* The pieces of a pattern are read one after the other from a position p, the
\* index of the next character; each gives the position behind what it read, 0
\* when it cannot be read (or when p is 0 already).
Behind(p, end) == IF p = 0 \/ end < p THEN 0 ELSE end + 1

\* (\w+)
ReadWord(s, p) == Behind(p, WordEnd(s, p))

\* \s+
ReadSpaces(s, p) == Behind(p, SpaceEnd(s, p))

\* a literal
ReadLiteral(s, p, lit) == IF p # 0 /\ StartsAt(s, p, lit) THEN p + Len(lit) ELSE 0

\* ([^']+)
ReadUnquoted(s, p) ==
    IF p = 0 THEN 0
    ELSE Behind(p, SetMin({q \in p..(Len(s) + 1) : q > Len(s) \/ CharAt(s, q) = "'"}) - 1)

\* the text read between two positions
Read(s, from, to) == SubSeq(s, from, to - 1)

\* the explicit pattern tried at index i with one verb:
\* (\w+)\s+verb\s+(\w+)\s+\((\w+)-to-(\w+)\s+relationship\s+called\s+'([^']+)'\)
ExplicitAt(s, i, verb) ==
    LET entity1End == ReadWord(s, i)
        entity2 == ReadSpaces(s, ReadLiteral(s, ReadSpaces(s, entity1End), verb))
        entity2End == ReadWord(s, entity2)
        cardinality1 == ReadLiteral(s, ReadSpaces(s, entity2End), "(")
        cardinality1End == ReadWord(s, cardinality1)
        cardinality2 == ReadLiteral(s, cardinality1End, "-to-")
        cardinality2End == ReadWord(s, cardinality2)
        label == ReadLiteral(s,
                     ReadSpaces(s,
                         ReadLiteral(s,
                             ReadSpaces(s,
                                 ReadLiteral(s, ReadSpaces(s, cardinality2End),
                                             "relationship")),
                             "called")),
                     "'")
        labelEnd == ReadUnquoted(s, label)
    IN  IF ReadLiteral(s, ReadLiteral(s, labelEnd, "'"), ")") # 0
        THEN [matched |-> TRUE,
              entity1Name |-> Read(s, i, entity1End),
              entity2Name |-> Read(s, entity2, entity2End),
              cardinality1 |-> Read(s, cardinality1, cardinality1End),
              cardinality2 |-> Read(s, cardinality2, cardinality2End),
              relationshipLabel |-> Read(s, label, labelEnd)]
        ELSE NoMatch

\* trimmedLine.match(<the explicit pattern>): the leftmost match, of the first
\* verb alternative that matches there
ExplicitMatch(line) ==
    LET First(hits) ==
            IF hits = {} THEN NoMatch
            ELSE (CHOOSE h \in hits :
                     \A g \in hits : h.i < g.i \/ (h.i = g.i /\ h.k <= g.k)).m
    IN  First({try \in {[i |-> i, k |-> k, m |-> ExplicitAt(line, i, ExplicitVerbs[k])] :
                          i \in 1..Len(line), k \in 1..Len(ExplicitVerbs)} :
                 try.m.matched})

relationshipKeywords ==
    {"have", "belong", "can", "many-to-many", "one-to-many", "place", "contain",
     "write", "schedule", "provide", "work", "teach", "enroll", "offer", "employs",
     "offers", "schedules", "provides", "works_in"}

\* the relationship the explicit pattern gives, for entities that exist
ExplicitRelationship(m) ==
    LET fromEntity == ToLowerCase(m.entity1Name)
        toEntity == ToLowerCase(m.entity2Name)
    IN  [id |-> fromEntity \o "-" \o toEntity \o "-"
                \o ReplaceAll(m.relationshipLabel, " ", "_"),
         fromEntity |-> fromEntity,
         toEntity |-> toEntity,
         type |-> IF m.cardinality1 = "many" /\ m.cardinality2 = "many" THEN "many-to-many"
                  ELSE IF m.cardinality1 = "one" /\ m.cardinality2 = "one" THEN "one-to-one"
                  ELSE "one-to-many",
         label |-> ReplaceAll(m.relationshipLabel, "_", " ")]

\* the duplicate check of the explicit branch
ExplicitExists(relationshipList, rel) ==
    \E n \in 1..Len(relationshipList) :
        LET r == relationshipList[n]
        IN  \/ r.fromEntity = rel.fromEntity /\ r.toEntity = rel.toEntity
            \/ r.fromEntity = rel.toEntity /\ r.toEntity = rel.fromEntity /\ r.type = rel.type

\* the type and label the keyword fallback infers from the line
KeywordTypeAndLabel(line) ==
    LET base == IF Includes(line, "many-to-many")
                THEN [type |-> "many-to-many", label |-> "relates to"]
                ELSE IF Includes(line, "one-to-many") \/ Includes(line, "have many")
                        \/ Includes(line, "has many")
                THEN [type |-> "one-to-many", label |-> "has"]
                ELSE IF Includes(line, "one-to-one")
                THEN [type |-> "one-to-one", label |-> "is related to"]
                ELSE [type |-> "one-to-many", label |-> "relates to"]
    IN  IF Includes(line, "enroll") THEN [type |-> "many-to-many", label |-> "enrolls in"]
        ELSE IF Includes(line, "teach") THEN [type |-> "one-to-many", label |-> "teaches"]
        ELSE IF Includes(line, "place") THEN [type |-> "one-to-many", label |-> "places"]
        ELSE IF Includes(line, "contain") THEN [type |-> "many-to-many", label |-> "contains"]
        ELSE IF Includes(line, "write") THEN [type |-> "many-to-many", label |-> "writes"]
        ELSE IF Includes(line, "schedule") THEN [type |-> "many-to-many", label |-> "schedules"]
        ELSE IF Includes(line, "provide") THEN [type |-> "many-to-many", label |-> "provides"]
        ELSE IF Includes(line, "work") THEN [type |-> "many-to-one", label |-> "works in"]
        ELSE IF Includes(line, "offer") THEN [type |-> "one-to-many", label |-> "offers"]
        ELSE IF Includes(line, "employs") THEN [type |-> "one-to-many", label |-> "employs"]
        ELSE IF Includes(line, "belongs_to") \/ Includes(line, "belong to")
        THEN [type |-> "many-to-one", label |-> "belongs to"]
        ELSE base

\* the duplicate check of the keyword fallback
KeywordExists(relationshipList, entity1, entity2, type) ==
    \E n \in 1..Len(relationshipList) :
        LET r == relationshipList[n]
        IN  \/ r.fromEntity = entity1 /\ r.toEntity = entity2 /\ r.type = type
            \/ r.fromEntity = entity2 /\ r.toEntity = entity1 /\ r.type = type

\* the body of the two nested entityNames.forEach loops, for one pair
KeywordPair(relationshipList, line, index, entity1, entity2) ==
    LET inferred == KeywordTypeAndLabel(line)
    IN  IF /\ entity1 # entity2
           /\ Includes(line, entity1)
           /\ Includes(line, entity2)
           /\ ~KeywordExists(relationshipList, entity1, entity2, inferred.type)
        THEN Append(relationshipList,
                    [id |-> entity1 \o "-" \o entity2 \o "-" \o ToString(index),
                     fromEntity |-> entity1,
                     toEntity |-> entity2,
                     type |-> inferred.type,
                     label |-> inferred.label])
        ELSE relationshipList

\* the nested loops from pair number p on; pairs are numbered row by row
RECURSIVE KeywordPairs(_, _, _, _, _)
KeywordPairs(relationshipList, line, index, entityNames, p) ==
    LET n == Len(entityNames)
    IN  IF p >= n * n THEN relationshipList
        ELSE KeywordPairs(
                 KeywordPair(relationshipList, line, index,
                             entityNames[(p \div n) + 1], entityNames[(p % n) + 1]),
                 line, index, entityNames, p + 1)

\* phase 2 for one line, were the keyword fallback to run after the explicit
\* branch as well
KeywordAfterExplicit(relationshipList, entityMap, line, index) ==
    LET Explicit(rel) ==
            IF /\ HasEntity(entityMap, rel.fromEntity)
               /\ HasEntity(entityMap, rel.toEntity)
               /\ ~ExplicitExists(relationshipList, rel)
            THEN Append(relationshipList, rel)
            ELSE relationshipList
        Fallback(list, trimmedLine) ==
            IF \E keyword \in relationshipKeywords : Includes(trimmedLine, keyword)
            THEN KeywordPairs(list, trimmedLine, index,
                              [i \in 1..Len(entityMap) |-> entityMap[i].id], 0)
            ELSE list
        Matched(trimmedLine, explicitRelationshipMatch) ==
            Fallback(IF explicitRelationshipMatch.matched
                     THEN Explicit(ExplicitRelationship(explicitRelationshipMatch))
                     ELSE relationshipList,
                     trimmedLine)
        Trimmed(trimmedLine) == Matched(trimmedLine, ExplicitMatch(trimmedLine))
    IN  Trimmed(Trim(line))

\* phase 2, one line; index is the line's 0-based position
ParseRelationshipLine(relationshipList, entityMap, line, index) ==
    LET Explicit(rel) ==
            IF /\ HasEntity(entityMap, rel.fromEntity)
               /\ HasEntity(entityMap, rel.toEntity)
               /\ ~ExplicitExists(relationshipList, rel)
            THEN Append(relationshipList, rel)
            ELSE relationshipList
        Matched(trimmedLine, explicitRelationshipMatch) ==
            IF explicitRelationshipMatch.matched
            THEN Explicit(ExplicitRelationship(explicitRelationshipMatch))
            ELSE IF \E keyword \in relationshipKeywords : Includes(trimmedLine, keyword)
            THEN KeywordPairs(relationshipList, trimmedLine, index,
                              [i \in 1..Len(entityMap) |-> entityMap[i].id], 0)
            ELSE relationshipList
        Trimmed(trimmedLine) == Matched(trimmedLine, ExplicitMatch(trimmedLine))
    IN  Trimmed(Trim(line))

\* phase 2 from line number index + 1 on
RECURSIVE ParseRelationships(_, _, _, _)
ParseRelationships(relationshipList, entityMap, lines, index) ==
    IF index >= Len(lines) THEN relationshipList
    ELSE ParseRelationships(
             ParseRelationshipLine(relationshipList, entityMap, lines[index + 1], index),
             entityMap, lines, index + 1)

\* phase 3, the attributes of one entity from attribute number a on
RECURSIVE InferFromAttributes(_, _, _, _)
InferFromAttributes(relationshipList, entityMap, entity, a) ==
    IF a > Len(entity.attributes) THEN relationshipList
    ELSE LET attr == entity.attributes[a]
             foreignEntityName == Trim(RemoveFirst(attr.name, "_id"))
             found == /\ EndsWith(attr.name, "_id")
                      /\ attr.name # "id"
                      /\ HasEntity(entityMap, foreignEntityName)
         IN  InferFromAttributes(
                 IF found
                 THEN Append(relationshipList,
                             [id |-> foreignEntityName \o "-" \o entity.id \o "-fk-infer",
                              fromEntity |-> foreignEntityName,
                              toEntity |-> entity.id,
                              type |-> "one-to-many",
                              label |-> "has"])
                 ELSE relationshipList,
                 entityMap, entity, a + 1)

\* phase 3 from entity number e on
RECURSIVE InferFromForeignKeys(_, _, _)
InferFromForeignKeys(relationshipList, entityMap, e) ==
    IF e > Len(entityMap) THEN relationshipList
    ELSE InferFromForeignKeys(
             InferFromAttributes(relationshipList, entityMap, entityMap[e], 1),
             entityMap, e + 1)

\* entity.name.toUpperCase().replace(/ /g, '-')
MermaidName(entity) == ReplaceAll(ToUpperCase(entity.name), " ", "-")

\* phase 4, the attribute lines of one entity block
RECURSIVE MermaidAttributes(_)
MermaidAttributes(attributes) ==
    IF attributes = <<>> THEN ""
    ELSE LET attr == Head(attributes)
             keyType == IF attr.isPrimaryKey THEN "PK"
                        ELSE IF attr.isForeignKey THEN "FK" ELSE ""
         IN  "        " \o attr.type \o " " \o attr.name \o " "
             \o (IF keyType # "" THEN "\"" \o keyType \o "\"" ELSE "") \o "\n"
             \o MermaidAttributes(Tail(attributes))

\* phase 4, the entity blocks
RECURSIVE MermaidEntities(_)
MermaidEntities(entityList) ==
    IF entityList = <<>> THEN ""
    ELSE "    " \o MermaidName(Head(entityList)) \o " {\n"
         \o MermaidAttributes(Head(entityList).attributes)
         \o "    }\n\n"
         \o MermaidEntities(Tail(entityList))

\* the cardinality token of the switch on rel.type; no case for any other type
MermaidToken(type) ==
    IF type = "one-to-one" THEN "||--||"
    ELSE IF type = "one-to-many" THEN "||--o{"
    ELSE IF type = "many-to-many" THEN "}o--o{"
    ELSE ""

EntityById(entityMap, id) == entityMap[CHOOSE i \in 1..Len(entityMap) : entityMap[i].id = id]

\* phase 4, the relationship lines
RECURSIVE MermaidRelationships(_, _)
MermaidRelationships(relationshipList, entityMap) ==
    IF relationshipList = <<>> THEN ""
    ELSE LET rel == Head(relationshipList)
             token == MermaidToken(rel.type)
         IN  (IF /\ HasEntity(entityMap, rel.fromEntity)
                 /\ HasEntity(entityMap, rel.toEntity)
                 /\ token # ""
              THEN "    " \o MermaidName(EntityById(entityMap, rel.fromEntity))
                   \o " " \o token \o " "
                   \o MermaidName(EntityById(entityMap, rel.toEntity))
                   \o " : \"" \o rel.label \o "\"\n"
              ELSE "")
             \o MermaidRelationships(Tail(relationshipList), entityMap)

\* text.toLowerCase().split('\n').filter(line => line.trim())
TextLines(text) == SelectSeq(Split(ToLowerCase(text), "\n"), LAMBDA line : Trim(line) # "")

parseTextToER(text) ==
    LET Phase4(entityMap, relationshipList) ==
            [entities |-> entityMap,
             relationships |-> relationshipList,
             mermaidCode |-> "erDiagram\n" \o MermaidEntities(entityMap)
                             \o MermaidRelationships(relationshipList, entityMap)]
        Phase3(entityMap, found) ==
            Phase4(entityMap,
                   IF Len(found) = 0 THEN InferFromForeignKeys(found, entityMap, 1)
                   ELSE found)
        Phase2(lines, entityMap) ==
            Phase3(entityMap, ParseRelationships(<<>>, entityMap, lines, 0))
        Phase1(lines) == Phase2(lines, ParseEntities(<<>>, lines))
    IN  Phase1(TextLines(text))

MaxTextLines == 3

\* the example of the generator's documentation, line by line
StudentsLine == "Students table (student_id, name)"

CoursesLine == "Courses table (course_id, title)"

EnrollmentLine == "Students enroll in Courses (many-to-many relationship called 'Enrollment')"

EnrollmentText == StudentsLine \o "\n" \o CoursesLine \o "\n" \o EnrollmentLine

TextLinePool ==
    {StudentsLine, CoursesLine, EnrollmentLine,
     "Courses enrolls in Students (one-to-many relationship called 'Class_List')",
     "Dept table (id, students_id, start date)",
     "Students work in Dept",
     "Log table (log id, students_id, students_id)"}

\* the texts of at most n lines over the pool
RECURSIVE TextsUpTo(_)
TextsUpTo(n) ==
    IF n = 0 THEN {""}
    ELSE LET shorter == TextsUpTo(n - 1)
         IN  shorter \cup TextLinePool
             \cup {t \o "\n" \o line : t \in shorter \ {""}, line \in TextLinePool}

ParseInit ==
    /\ inputText \in TextsUpTo(MaxTextLines)
    /\ parsed = NotRun

ParseIdle ==
    /\ inputText = ""
    /\ parsed = NotRun

\* generateERDiagram's call parseTextToER(inputText)
ParseText ==
    /\ UNCHANGED <<csvVars, erVars, chartVars, exportVars, uploadVars, aggVars, moreVars>>
    /\ parsed = NotRun
    /\ parsed' = parseTextToER(inputText)
    /\ UNCHANGED inputText

ParseNext == ParseText

-----------------------------------------------------------------------------
(* Chart series aggregation                                                *)
(*   FileToChart.tsx processDataForChart                                   *)
(*   AnimateChart.tsx processSelectedColumns, processDataForChart          *)
(*                                                                         *)
(* A cell of a record is a JavaScript value [t, v]: null, undefined, a      *)
(* boolean, a number, a string or a Date. Numbers are exact rationals, NaN *)
(* is the number with d = 0; an integer from WideFrom on is n * 10^e with  *)
(* the trailing zeros of its digits counted in e.                          *)

Null == [t |-> "null", v |-> ""]

Num(i) == [t |-> "number", v |-> RInt(i)]

Str(s) == [t |-> "string", v |-> s]

Undefined == [t |-> "undefined", v |-> ""]

Bool(b) == [t |-> "boolean", v |-> IF b THEN "true" ELSE "false"]

\* a Date object made from the text s
Date(s) == [t |-> "date", v |-> s]

NaN == [n |-> 0, d |-> 0]

IsNaN(x) == x.d = 0

\* a + b on numbers
JsAdd(a, b) == IF IsNaN(a) \/ IsNaN(b) THEN NaN ELSE RAdd(a, b)

RECURSIVE PowerOfTen(_)
PowerOfTen(k) == IF k = 0 THEN 1 ELSE 10 * PowerOfTen(k - 1)

\* the integers below WideFrom are written out in n
WideFrom == PowerOfTen(9)

IsWide(x) == "e" \in DOMAIN x

\* n * 10^e for an integer n # 0 that ends in zeros or not
RECURSIVE Stripped(_, _)
Stripped(n, e) ==
    IF n % 10 = 0 THEN Stripped(n \div 10, e + 1) ELSE [n |-> n, d |-> 1, e |-> e]

\* the number n * 10^e
RECURSIVE Scaled(_, _)
Scaled(n, e) ==
    IF n = 0 THEN RInt(0)
    ELSE IF Abs(n) >= WideFrom THEN Stripped(n, e)
    ELSE IF e = 0 THEN RInt(n)
    ELSE IF Abs(n) >= WideFrom \div 10 THEN Stripped(n, e)
    ELSE Scaled(n * 10, e - 1)

\* -x
Negated(x) == IF IsWide(x) THEN [x EXCEPT !.n = -x.n] ELSE RNeg(x)

\* x * 10^k for x # NaN
RECURSIVE TimesPowerOfTen(_, _)
TimesPowerOfTen(x, k) ==
    IF IsWide(x)
    THEN IF x.e + k >= 0 THEN Scaled(x.n, x.e + k)
         ELSE Rat(x.n, PowerOfTen(0 - k - x.e))
    ELSE IF k < 0 THEN Rat(x.n, x.d * PowerOfTen(0 - k))
    ELSE IF x.d = 1 THEN Scaled(x.n, k)
    ELSE TimesPowerOfTen(Rat(x.n * 10, x.d), k - 1)

\* Number.isInteger(x)
IsInteger(x) == x.d = 1

\* the value is truthy: `cell || fallback` keeps the cell
Truthy(cell) ==
    IF cell.t \in {"null", "undefined"} THEN FALSE
    ELSE IF cell.t = "boolean" THEN cell.v = "true"
    ELSE IF cell.t \in {"date", "object", "array"} THEN TRUE
    ELSE IF cell.t = "number" THEN ~IsNaN(cell.v) /\ cell.v.n # 0
    ELSE cell.v # ""

\* cell || fallback
OrElse(cell, fallback) == IF Truthy(cell) THEN cell ELSE fallback

\* the digits of the fraction rem / d, for a d that divides a power of ten
RECURSIVE FractionDigits(_, _)
FractionDigits(rem, d) ==
    IF rem = 0 THEN ""
    ELSE ToString((rem * 10) \div d) \o FractionDigits((rem * 10) % d, d)

RECURSIVE Zeros(_)
Zeros(k) == IF k = 0 THEN "" ELSE "0" \o Zeros(k - 1)

\* String(x) for an integer from WideFrom on: up to 21 digits are written out,
\* a longer number is written with an exponent
WideToString(x) ==
    LET Written(sign, digits, count) ==
            IF count <= 21 THEN sign \o digits \o Zeros(x.e)
            ELSE sign \o CharAt(digits, 1)
                 \o (IF Len(digits) > 1 THEN "." \o SubSeq(digits, 2, Len(digits)) ELSE "")
                 \o "e+" \o ToString(count - 1)
        Counted(digits) == Written(IF x.n < 0 THEN "-" ELSE "", digits, Len(digits) + x.e)
    IN  Counted(ToString(Abs(x.n)))

\* String(x) for a number
NumberToString(x) ==
    IF IsNaN(x) THEN "NaN"
    ELSE IF IsWide(x) THEN WideToString(x)
    ELSE IF x.d = 1 THEN ToString(x.n)
    ELSE (IF x.n < 0 THEN "-" ELSE "") \o ToString(Abs(x.n) \div x.d) \o "."
         \o FractionDigits(Abs(x.n) % x.d, x.d)

\* String(x); of an array the elements joined by commas, null and undefined
\* left empty
RECURSIVE JsString(_)
JsString(cell) ==
    IF cell.t = "null" THEN "null"
    ELSE IF cell.t = "undefined" THEN "undefined"
    ELSE IF cell.t = "number" THEN NumberToString(cell.v)
    ELSE IF cell.t = "object" THEN "[object Object]"
    ELSE IF cell.t = "array"
    THEN (IF cell.v = <<>> THEN ""
          ELSE LET first == IF cell.v[1].t \in {"null", "undefined"} THEN ""
                            ELSE JsString(cell.v[1])
               IN  IF Len(cell.v) = 1 THEN first
                   ELSE first \o "," \o JsString([t |-> "array", v |-> Tail(cell.v)]))
    ELSE cell.v

IsDigit(c) == IndexOfChar(Digits, c) # 0

\* the last index of the longest run of digits that starts at i; i - 1 when empty
RECURSIVE DigitEnd(_, _)
DigitEnd(s, i) ==
    IF i <= Len(s) /\ IsDigit(CharAt(s, i)) THEN DigitEnd(s, i + 1) ELSE i - 1

\* the number written by a string of digits; 0 for the empty string
RECURSIVE DigitsValue(_)
DigitsValue(s) ==
    IF s = "" THEN 0
    ELSE DigitsValue(SubSeq(s, 1, Len(s) - 1)) * 10 + (IndexOfChar(Digits, CharAt(s, Len(s))) - 1)

\* the number of zeros that end s
RECURSIVE ZerosAtEnd(_)
ZerosAtEnd(s) ==
    IF Len(s) > 0 /\ CharAt(s, Len(s)) = "0"
    THEN 1 + ZerosAtEnd(SubSeq(s, 1, Len(s) - 1))
    ELSE 0

\* the integer written by a string of digits of any length
WideDigitsValue(s) ==
    LET Value(zeros) == Scaled(DigitsValue(SubSeq(s, 1, Len(s) - zeros)), zeros)
    IN  Value(ZerosAtEnd(s))

\* the decimal literal at the start of s: [sign] digits [. digits] [e [sign]
\* digits], Infinity left out. end is the last index read, 0 when nothing is read.
DecimalPrefix(s) ==
    LET Signed(magnitude) ==
            IF Len(s) > 0 /\ CharAt(s, 1) = "-" THEN Negated(magnitude) ELSE magnitude
        Magnitude(integer, fraction) ==
            IF fraction = "" THEN WideDigitsValue(integer)
            ELSE Rat(DigitsValue(integer) * PowerOfTen(Len(fraction)) + DigitsValue(fraction),
                     PowerOfTen(Len(fraction)))
        \* the exponent part behind the literal: e, `signed` characters of sign,
        \* digits up to expEnd
        Exponent(literal, signed, expEnd) ==
            IF expEnd < literal.end + 2 + signed THEN literal
            ELSE [end |-> expEnd,
                  value |-> TimesPowerOfTen(
                                literal.value,
                                (IF CharAt(s, literal.end + 2) = "-" THEN -1 ELSE 1)
                                * DigitsValue(SubSeq(s, literal.end + 2 + signed, expEnd)))]
        \* the digits s[first..intEnd], a point behind them when dotted, and the
        \* digits behind the point up to fracEnd
        Literal(first, intEnd, dotted, fracEnd) ==
            IF intEnd < first /\ fracEnd < intEnd + 2 THEN [end |-> 0, value |-> NaN]
            ELSE [end |-> IF fracEnd >= intEnd + 2 THEN fracEnd
                          ELSE IF dotted THEN intEnd + 1 ELSE intEnd,
                  value |-> Signed(Magnitude(SubSeq(s, first, intEnd),
                                             IF dotted THEN SubSeq(s, intEnd + 2, fracEnd)
                                             ELSE ""))]
    IN  Once(IF Len(s) > 0 /\ CharAt(s, 1) \in {"-", "+"} THEN 2 ELSE 1, LAMBDA first :
        Once(DigitEnd(s, first), LAMBDA intEnd :
        Once(intEnd < Len(s) /\ CharAt(s, intEnd + 1) = ".", LAMBDA dotted :
        Once(Literal(first, intEnd, dotted,
                     IF dotted THEN DigitEnd(s, intEnd + 2) ELSE intEnd), LAMBDA literal :
            IF literal.end = 0 \/ literal.end >= Len(s)
               \/ CharAt(s, literal.end + 1) \notin {"e", "E"}
            THEN literal
            ELSE Once(IF literal.end + 2 <= Len(s)
                         /\ CharAt(s, literal.end + 2) \in {"+", "-"}
                      THEN 1 ELSE 0, LAMBDA signed :
                 Exponent(literal, signed, DigitEnd(s, literal.end + 2 + signed)))))))

\* parseFloat(s): leading blanks skipped, the longest decimal prefix read
ParseFloat(s) == DecimalPrefix(TrimStart(s)).value

\* Number(x): for a string the whole trimmed text has to be a decimal literal
JsNumber(cell) ==
    IF cell.t = "null" THEN RInt(0)
    ELSE IF cell.t = "undefined" THEN NaN
    ELSE IF cell.t = "boolean" THEN RInt(IF cell.v = "true" THEN 1 ELSE 0)
    ELSE IF cell.t = "number" THEN cell.v
    ELSE Once(Trim(cell.v), LAMBDA text :
         IF text = "" THEN RInt(0)
         ELSE Once(DecimalPrefix(text), LAMBDA prefix :
              IF prefix.end = Len(text) THEN prefix.value ELSE NaN))

\* parseInt(s, 10): blanks skipped, a sign, then the longest run of digits
ParseInt(s) ==
    Once(TrimStart(s), LAMBDA text :
    Once(IF Len(text) > 0 /\ CharAt(text, 1) \in {"-", "+"} THEN 2 ELSE 1, LAMBDA first :
    Once(DigitEnd(text, first), LAMBDA end :
        IF end < first THEN NaN
        ELSE IF CharAt(text, 1) = "-"
        THEN Negated(WideDigitsValue(SubSeq(text, first, end)))
        ELSE WideDigitsValue(SubSeq(text, first, end)))))

\* the text with every digit replaced by 9
RECURSIVE DigitShape(_)
DigitShape(s) ==
    IF Len(s) <= 1 THEN (IF IsDigit(s) THEN "9" ELSE s)
    ELSE LET half == Len(s) \div 2
         IN  DigitShape(SubSeq(s, 1, half)) \o DigitShape(SubSeq(s, half + 1, Len(s)))

\* /^\d{4}-\d{2}-\d{2}(T\d{2}:\d{2}:\d{2}(\.\d{3})?Z?)?$/.test(s)
IsIsoDate(s) ==
    DigitShape(s) \in {"9999-99-99", "9999-99-99T99:99:99", "9999-99-99T99:99:99Z",
                       "9999-99-99T99:99:99.999", "9999-99-99T99:99:99.999Z"}

\* !isNaN(new Date(s).getTime()) for a text of that form: the month, the day and
\* the time of day are in range (a day past the end of a shorter month is read
\* differently by different engines)
IsValidDate(s) ==
    LET Field(from, to) == DigitsValue(SubSeq(s, from, to))
    IN  /\ Field(6, 7) \in 1..12
        /\ Field(9, 10) \in 1..31
        /\ Len(s) > 10 => Field(12, 13) < 24 /\ Field(15, 16) < 60 /\ Field(18, 19) < 60

\* isFinite(x) && !isNaN(x) for the numbers of the model
IsFiniteNumber(x) == ~IsNaN(x)

IsNumMatchChar(c) == IsDigit(c) \/ c \in {".", ",", "-"}

RECURSIVE NumMatchEnd(_, _)
NumMatchEnd(s, i) ==
    IF i <= Len(s) /\ IsNumMatchChar(CharAt(s, i)) THEN NumMatchEnd(s, i + 1) ELSE i - 1

\* s.match(/[\d.,-]+/): the leftmost longest run, "" for no match
NumMatch(s) ==
    LET starts == {i \in 1..Len(s) : IsNumMatchChar(CharAt(s, i))}
        first == SetMin(starts)
    IN  IF starts = {} THEN "" ELSE SubSeq(s, first, NumMatchEnd(s, first))

\* parseFloat of the cell, then the number found by the regular expression,
\* then the fallback of the call site
ParsedValue(cell, fallback) ==
    LET Matched(numMatch) ==
            IF numMatch # "" THEN ParseFloat(ReplaceAll(numMatch, ",", "")) ELSE fallback
        Parsed(text, value) == IF ~IsNaN(value) THEN value ELSE Matched(NumMatch(text))
        Text(text) == Parsed(text, ParseFloat(text))
    IN  Text(JsString(cell))

\* a Map as the sequence of its entries [key, value] in insertion order
MapHas(map, key) == \E i \in 1..Len(map) : map[i].key = key

MapGet(map, key) == map[CHOOSE i \in 1..Len(map) : map[i].key = key].value

MapSet(map, key, value) ==
    IF MapHas(map, key)
    THEN LET at == CHOOSE i \in 1..Len(map) : map[i].key = key
         IN  SubSeq(map, 1, at - 1) \o <<[key |-> key, value |-> value]>>
             \o SubSeq(map, at + 1, Len(map))
    ELSE Append(map, [key |-> key, value |-> value])

\* a slice that keeps the whole array
TakeAll(seq, n) == seq

\* array.slice(0, n)
Take(seq, n) == SubSeq(seq, 1, Min(n, Len(seq)))

\* the columns of every record, in key order
Columns == <<"k", "v", "s">>

Row(k, v, s) == [k |-> k, v |-> v, s |-> s]

\* FileProcessor.parseValue
ParseValue(cell) ==
    Once(cell, LAMBDA value :
    IF value.t \in {"null", "undefined"} \/ (value.t = "string" /\ value.v = "")
    THEN Null
    ELSE Once(Trim(JsString(value)), LAMBDA str :
         IF ToLowerCase(str) = "true" THEN Bool(TRUE)
         ELSE IF ToLowerCase(str) = "false" THEN Bool(FALSE)
         ELSE Once(ParseFloat(str), LAMBDA num :
              IF ~IsNaN(JsNumber(Str(str))) /\ IsFiniteNumber(num)
              THEN [t |-> "number", v |-> IF IsInteger(num) THEN ParseInt(str) ELSE num]
              ELSE IF IsIsoDate(str) /\ IsValidDate(str) THEN Date(str)
              ELSE Str(str))))

\* processJSON's normalizedData
NormalizedData(data) ==
    [i \in 1..Len(data) |-> [col \in {"k", "v", "s"} |-> ParseValue(data[i][col])]]

\* what an aggregation gives back: the series, or nothing
Series(labels, datasets) ==
    [returned |-> "series", labels |-> labels, datasets |-> datasets, status |-> "none"]

NoSeries(returned, status) ==
    [returned |-> returned, labels |-> <<>>, datasets |-> <<>>, status |-> status]

\* the entries of a sequence without repetitions, first occurrences kept in order
Distinct(seq) ==
    LET firsts == {i \in 1..Len(seq) : \A j \in 1..(i - 1) : seq[j] # seq[i]}
    IN  [p \in 1..Cardinality(firsts) |->
            seq[CHOOSE i \in firsts : Cardinality({j \in firsts : j < i}) = p - 1]]

\* the concatenation of seqs[lo..hi]
RECURSIVE Flatten(_, _, _)
Flatten(seqs, lo, hi) ==
    IF lo > hi THEN <<>>
    ELSE IF lo = hi THEN seqs[lo]
    ELSE LET mid == (lo + hi) \div 2
         IN  Flatten(seqs, lo, mid) \o Flatten(seqs, mid + 1, hi)

MapKeys(map) == [i \in 1..Len(map) |-> map[i].key]

\* the sum of numbers[lo..hi], from 0
RECURSIVE Sum(_, _, _)
Sum(numbers, lo, hi) ==
    IF lo > hi THEN RInt(0)
    ELSE IF lo = hi THEN JsAdd(RInt(0), numbers[lo])
    ELSE LET mid == (lo + hi) \div 2
         IN  JsAdd(Sum(numbers, lo, mid), Sum(numbers, mid + 1, hi))

\* ---- FileToChart processDataForChart ----

RowLimit == 1000

FtcLabelLimit == 50

\* the body of data.slice(0, 1000).forEach
FtcAddRow(groupedData, row, c) ==
    LET label == Trim(JsString(OrElse(row[c.labelCol], Str("Unknown"))))
        series == IF c.seriesCol # ""
                  THEN Trim(JsString(OrElse(row[c.seriesCol], Str("Default"))))
                  ELSE "Default"
        \* Number(row[valueCol]) || 0
        NumberOrZero(number) == IF IsNaN(number) THEN RInt(0) ELSE number
        Add(seriesMap, value) ==
            MapSet(seriesMap, series,
                   JsAdd(IF MapHas(seriesMap, series) THEN MapGet(seriesMap, series)
                         ELSE RInt(0),
                         value))
    IN  MapSet(groupedData, label,
               Add(IF MapHas(groupedData, label) THEN MapGet(groupedData, label) ELSE <<>>,
                   IF c.isNumericValue THEN NumberOrZero(JsNumber(row[c.valueCol]))
                   ELSE RInt(1)))

\* forEach over data[lo..hi], rows in order; the first half is worked out in
\* full (its length is taken) before the second half is started from it
RECURSIVE FtcAddRows(_, _, _, _, _)
FtcAddRows(groupedData, data, lo, hi, c) ==
    IF lo > hi THEN groupedData
    ELSE IF lo = hi THEN FtcAddRow(groupedData, data[lo], c)
    ELSE LET mid == (lo + hi) \div 2
             firstHalf == FtcAddRows(groupedData, data, lo, mid, c)
         IN  IF Len(firstHalf) >= 0 THEN FtcAddRows(firstHalf, data, mid + 1, hi, c)
             ELSE firstHalf

\* seriesMap?.get(seriesName) || 0
FtcCell(groupedData, label, seriesName) ==
    LET seriesMap == MapGet(groupedData, label)
    IN  IF MapHas(seriesMap, seriesName) THEN MapGet(seriesMap, seriesName) ELSE RInt(0)

FtcProcessDataForChart(data, labelCol, valueCol, seriesCol) ==
    LET Datasets(isNumericValue, groupedData, labels, seriesNames) ==
            Series(labels,
                   [n \in 1..Len(seriesNames) |->
                      [label |-> IF seriesCol # "" THEN seriesNames[n]
                                 ELSE IF isNumericValue THEN valueCol \o " (Sum)"
                                 ELSE valueCol \o " (Count)",
                       data |-> [p \in 1..Len(labels) |->
                                   FtcCell(groupedData, labels[p], seriesNames[n])]]])
        Grouped(isNumericValue, groupedData) ==
            Datasets(isNumericValue, groupedData,
                     Take(MapKeys(groupedData), FtcLabelLimit),
                     Distinct(Flatten([i \in 1..Len(groupedData) |->
                                         MapKeys(groupedData[i].value)],
                                      1, Len(groupedData))))
        Rows(isNumericValue, rows) ==
            Grouped(isNumericValue,
                    FtcAddRows(<<>>, rows, 1, Len(rows),
                               [labelCol |-> labelCol, valueCol |-> valueCol,
                                seriesCol |-> seriesCol,
                                isNumericValue |-> isNumericValue]))
    IN  IF labelCol = "" \/ valueCol = "" THEN NoSeries("null", "warning")
        ELSE Rows(\E i \in 1..Len(data) : data[i][valueCol].t = "number",
                  Take(data, RowLimit))

\* ---- AnimateChart processSelectedColumns ----

AcLabelLimit == 30

SampleSize == 20

\* String(row[labelColumn] || `Item ${index + 1}`).trim(); i is index + 1
AcLabel(row, labelColumn, i) ==
    Trim(JsString(OrElse(row[labelColumn], Str("Item " \o ToString(i)))))

\* the body of the numeric data.forEach: the value joins the label's array
AcPushValue(dataMap, row, i, c) ==
    LET Push(label, value) ==
            MapSet(dataMap, label,
                   IF MapHas(dataMap, label) THEN Append(MapGet(dataMap, label), value)
                   ELSE <<value>>)
    IN  Push(AcLabel(row, c.labelColumn, i), ParsedValue(row[c.dataColumn], RInt(0)))

RECURSIVE AcPushValues(_, _, _, _, _)
AcPushValues(dataMap, data, lo, hi, c) ==
    IF lo > hi THEN dataMap
    ELSE IF lo = hi THEN AcPushValue(dataMap, data[lo], lo, c)
    ELSE LET mid == (lo + hi) \div 2
             firstHalf == AcPushValues(dataMap, data, lo, mid, c)
         IN  IF Len(firstHalf) >= 0 THEN AcPushValues(firstHalf, data, mid + 1, hi, c)
             ELSE firstHalf

\* the body of the categorical data.forEach: one more of dataValue under label
AcCountValue(labelValueMap, row, i, c) ==
    LET label == AcLabel(row, c.labelColumn, i)
        dataValue == Trim(JsString(OrElse(row[c.dataColumn], Str("Unknown"))))
        valueMap == IF MapHas(labelValueMap, label) THEN MapGet(labelValueMap, label) ELSE <<>>
    IN  MapSet(labelValueMap, label,
               MapSet(valueMap, dataValue,
                      IF MapHas(valueMap, dataValue)
                      THEN JsAdd(MapGet(valueMap, dataValue), RInt(1))
                      ELSE RInt(1)))

RECURSIVE AcCountValues(_, _, _, _, _)
AcCountValues(labelValueMap, data, lo, hi, c) ==
    IF lo > hi THEN labelValueMap
    ELSE IF lo = hi THEN AcCountValue(labelValueMap, data[lo], lo, c)
    ELSE LET mid == (lo + hi) \div 2
             firstHalf == AcCountValues(labelValueMap, data, lo, mid, c)
         IN  IF Len(firstHalf) >= 0 THEN AcCountValues(firstHalf, data, mid + 1, hi, c)
             ELSE firstHalf

\* the comparator ([,a], [,b]) => b - a is positive: b goes before a
GoesBefore(b, a) == ~IsNaN(a.value) /\ ~IsNaN(b.value) /\ RLt(a.value, b.value)

\* a stable sort step: the entry goes behind the last one it does not go before
InsertSorted(sorted, entry) ==
    LET stay == {j \in 1..Len(sorted) : ~GoesBefore(entry, sorted[j])}
        at == IF stay = {} THEN 0 ELSE SetMax(stay)
    IN  SubSeq(sorted, 1, at) \o <<entry>> \o SubSeq(sorted, at + 1, Len(sorted))

\* entries.sort(([,a], [,b]) => b - a), entries[lo..hi] put into sorted in order
RECURSIVE SortDescending(_, _, _, _)
SortDescending(sorted, entries, lo, hi) ==
    IF lo > hi THEN sorted
    ELSE IF lo = hi THEN InsertSorted(sorted, entries[lo])
    ELSE LET mid == (lo + hi) \div 2
             firstHalf == SortDescending(sorted, entries, lo, mid)
         IN  IF Len(firstHalf) >= 0 THEN SortDescending(firstHalf, entries, mid + 1, hi)
             ELSE firstHalf

AcProcessSelectedColumns(data, labelColumn, dataColumn) ==
    LET c == [labelColumn |-> labelColumn, dataColumn |-> dataColumn]
        last == Min(RowLimit, Len(data))
        Sorted(isNumericColumn, sortedEntries) ==
            Series([i \in 1..Len(sortedEntries) |-> sortedEntries[i].key],
                   <<[label |-> (IF isNumericColumn THEN "Sum of " ELSE "Count of ")
                                \o dataColumn \o " by " \o labelColumn,
                      data |-> [i \in 1..Len(sortedEntries) |-> sortedEntries[i].value]]>>)
        Entries(isNumericColumn, entries) ==
            Sorted(isNumericColumn,
                   Take(SortDescending(<<>>, entries, 1, Len(entries)), AcLabelLimit))
        aggregatedData(dataMap) ==
            [i \in 1..Len(dataMap) |->
               [key |-> dataMap[i].key,
                value |-> Sum(dataMap[i].value, 1, Len(dataMap[i].value))]]
        labelCounts(labelValueMap) ==
            [i \in 1..Len(labelValueMap) |->
               [key |-> labelValueMap[i].key,
                value |-> Sum([j \in 1..Len(labelValueMap[i].value) |->
                                 labelValueMap[i].value[j].value],
                              1, Len(labelValueMap[i].value))]]
        Column(isNumericColumn) ==
            Entries(isNumericColumn,
                    IF isNumericColumn
                    THEN aggregatedData(AcPushValues(<<>>, data, 1, last, c))
                    ELSE labelCounts(AcCountValues(<<>>, data, 1, last, c)))
    IN  Column(\E i \in 1..Min(SampleSize, Len(data)) :
                  IsFiniteNumber(ParseFloat(JsString(data[i][dataColumn]))))

\* ---- AnimateChart processDataForChart ----

\* the first column other than the label column whose first-row value reads as a number
AcNumericColumns(firstRow, labelColumn) ==
    {i \in 1..Len(Columns) :
        /\ Columns[i] # labelColumn
        /\ ~IsNaN(ParseFloat(JsString(firstRow[Columns[i]])))
        /\ IsFiniteNumber(JsNumber(firstRow[Columns[i]]))}

\* the body of data.forEach: the value is added to the label's total
AcAddRow(dataMap, row, i, c) ==
    LET Add(labelKey, value) ==
            MapSet(dataMap, labelKey,
                   IF MapHas(dataMap, labelKey) THEN JsAdd(MapGet(dataMap, labelKey), value)
                   ELSE value)
    IN  Add(AcLabel(row, c.labelColumn, i), ParsedValue(row[c.valueColumn], RInt(1)))

RECURSIVE AcAddRows(_, _, _, _, _)
AcAddRows(dataMap, data, lo, hi, c) ==
    IF lo > hi THEN dataMap
    ELSE IF lo = hi THEN AcAddRow(dataMap, data[lo], lo, c)
    ELSE LET mid == (lo + hi) \div 2
             firstHalf == AcAddRows(dataMap, data, lo, mid, c)
         IN  IF Len(firstHalf) >= 0 THEN AcAddRows(firstHalf, data, mid + 1, hi, c)
             ELSE firstHalf

AcProcessDataForChart(data, selectedLabelColumn, selectedValueColumn) ==
    LET Entries(valueColumn, uniqueEntries) ==
            Series([i \in 1..Len(uniqueEntries) |-> uniqueEntries[i].key],
                   <<[label |-> valueColumn,
                      data |-> [i \in 1..Len(uniqueEntries) |-> uniqueEntries[i].value]]>>)
        Grouped(labelColumn, valueColumn) ==
            Entries(valueColumn,
                    Take(AcAddRows(<<>>, data, 1, Min(RowLimit, Len(data)),
                                   [labelColumn |-> labelColumn,
                                    valueColumn |-> valueColumn]),
                         AcLabelLimit))
        Detected(labelColumn, numeric) ==
            Grouped(labelColumn,
                    IF selectedValueColumn # "" THEN selectedValueColumn
                    ELSE IF numeric # {} THEN Columns[SetMin(numeric)]
                    ELSE Columns[2])
        Label(labelColumn) == Detected(labelColumn, AcNumericColumns(data[1], labelColumn))
    IN  IF Len(data) = 0 THEN NoSeries("throws", "none")
        ELSE Label(IF selectedLabelColumn # "" THEN selectedLabelColumn ELSE Columns[1])

\* ---- the record lists that are aggregated ----

MaxRows == 3

MaxTailRows == 1

MaxExcessLabels == 1

RowPool ==
    { Row(Str("x"), Num(1), Str("a")),
      Row(Str("x"), Num(2), Str("b")),
      Row(Str("y"), Num(5), Str("a")),
      Row(Str(" x "), Str("3"), Null),
      Row(Null, Str("n/a"), Str("a")),
      Row(Str("y"), Str("$1,200"), Str("b")),
      Row(Num(0), Num(4), Str("a")),
      Row(Str("y"), Str("-"), Str("a")) }

RECURSIVE ListsUpTo(_, _)
ListsUpTo(pool, n) ==
    IF n = 0 THEN {<<>>}
    ELSE LET shorter == ListsUpTo(pool, n - 1)
         IN  shorter \cup {Append(list, row) : list \in {l \in shorter : Len(l) = n - 1},
                                               row \in pool}

Repeat(row, n) == [i \in 1..n |-> row]

\* a file of about RowLimit equal records followed by a few others
LongRows == { Row(Str("x"), Num(1), Str("a")), Row(Str("y"), Str("n/a"), Str("a")) }

TailPool == { Row(Str("z"), Num(7), Str("b")) }

LongLists ==
    {Repeat(row, n) \o tail : row \in LongRows, n \in {RowLimit - 1, RowLimit},
                              tail \in ListsUpTo(TailPool, MaxTailRows)}

\* a file in which every record has a label of its own
ManyLabels(n) == [i \in 1..n |-> Row(Num(i), Num(i), Str("a"))]

ManyLabelLists ==
    {ManyLabels(limit + excess) : limit \in {AcLabelLimit, FtcLabelLimit},
                                  excess \in 0..MaxExcessLabels}

RecordLists == ListsUpTo(RowPool, MaxRows) \cup LongLists \cup ManyLabelLists

\* which column selections an aggregation is called with
ColumnChoices == {"", "k"} \X {"", "v"}

AggInit ==
    /\ records \in RecordLists
    /\ aggregated = NotRun

AggIdle ==
    /\ records = <<>>
    /\ aggregated = NotRun

\* FileToChart: the parsed file's records are grouped for the selected columns
FtcAggregate ==
    /\ UNCHANGED <<csvVars, erVars, chartVars, exportVars, uploadVars, parseVars, moreVars>>
    /\ aggregated = NotRun
    /\ \E seriesCol \in {"", "s"} :
          aggregated' = [by |-> "FTC", labelCol |-> "k", valueCol |-> "v",
                         seriesCol |-> seriesCol,
                         result |-> FtcProcessDataForChart(NormalizedData(records),
                                                           "k", "v", seriesCol)]
    /\ UNCHANGED records

\* AnimateChart: the two selected columns are grouped
AcAggregateSelected ==
    /\ UNCHANGED <<csvVars, erVars, chartVars, exportVars, uploadVars, parseVars, moreVars>>
    /\ aggregated = NotRun
    /\ aggregated' = [by |-> "AC-selected", labelCol |-> "k", valueCol |-> "v",
                      seriesCol |-> "",
                      result |-> AcProcessSelectedColumns(records, "k", "v")]
    /\ UNCHANGED records

\* AnimateChart: the data is grouped by the columns processDataForChart settles on
AcAggregate ==
    /\ UNCHANGED <<csvVars, erVars, chartVars, exportVars, uploadVars, parseVars, moreVars>>
    /\ aggregated = NotRun
    /\ \E choice \in ColumnChoices :
          aggregated' = [by |-> "AC", labelCol |-> choice[1], valueCol |-> choice[2],
                         seriesCol |-> "",
                         result |-> AcProcessDataForChart(records, choice[1], choice[2])]
    /\ UNCHANGED records

AggNext ==
    \/ FtcAggregate
    \/ AcAggregateSelected
    \/ AcAggregate

-----------------------------------------------------------------------------
(* Typed values: FileToChart.tsx FileProcessor.parseValue, called by       *)
(* processJSON on every property of every item and by processCSV on the    *)
(* text of every cell                                                      *)

MaxPower == 21

MaxValueLen == 3

\* integers that are exact doubles, up to 12 * 10^MaxPower
IntegerValues ==
    {[t |-> "number", v |-> Scaled(m, e)] : m \in {0, 1, -3, 12}, e \in 0..MaxPower}

\* the text with every letter in either case
RECURSIVE Casings(_)
Casings(s) ==
    IF s = "" THEN {""}
    ELSE {c \o rest : c \in {CharAt(s, 1), UpperChar(CharAt(s, 1))},
                      rest \in Casings(SubSeq(s, 2, Len(s)))}

ValueAlphabet == {"0", "1", ".", "-", "e", " "}

ValueTexts ==
    StringsUpTo(ValueAlphabet, MaxValueLen) \cup Casings("true") \cup Casings("false")
    \cup {" True ", "truely", "abc", "1e+21", "1.5e1", "2024-01-15", "2024-13-15",
          "2024-01-15T10:30:00Z"}

RawValues ==
    {Null, Undefined, Bool(TRUE), Bool(FALSE)} \cup IntegerValues
    \cup {Str(text) : text \in ValueTexts}

ValueInit ==
    /\ rawValue \in RawValues
    /\ typedValue = [json |-> NotRun, csv |-> NotRun]

ValueIdle ==
    /\ rawValue = Null
    /\ typedValue = [json |-> NotRun, csv |-> NotRun]

\* processJSON: normalizedItem[header] = this.parseValue(item[header])
ParseJsonValue ==
    /\ UNCHANGED valueOthers
    /\ typedValue.json = NotRun
    /\ typedValue' = [typedValue EXCEPT !.json = ParseValue(rawValue)]
    /\ UNCHANGED rawValue

\* processCSV on a cell in which the value is written out as String(value):
\* row[header] = this.parseValue(values[index]?.trim() || '')
ParseCsvValue ==
    /\ UNCHANGED valueOthers
    /\ typedValue.csv = NotRun
    /\ rawValue.t \in {"number", "string"}
    /\ typedValue' = [typedValue EXCEPT !.csv = ParseValue(Str(Trim(JsString(rawValue))))]
    /\ UNCHANGED rawValue

ValueNext == ParseJsonValue \/ ParseCsvValue

-----------------------------------------------------------------------------
(* The texts of uploaded files                                             *)
(*   JSON.parse, FileToChart.tsx processCSV and processJSON,               *)
(*   AnimateChart.tsx parseCSV and parseFileData                           *)
(*                                                                         *)
(* A JSON value is a cell, an array [t |-> "array", v |-> <<values>>] or   *)
(* an object [t |-> "object", v |-> <<[key, value], ...>>] with its        *)
(* properties in the order of Object.keys. The texts of the model hold no  *)
(* backslash and no property name that is an array index.                  *)

Array(values) == [t |-> "array", v |-> values]

Object(properties) == [t |-> "object", v |-> properties]

IsJsonSpace(c) == c \in {" ", "\t", "\n", "\r"}

\* the first index from i on that holds no white space
RECURSIVE SkipSpace(_, _)
SkipSpace(s, i) ==
    IF i <= Len(s) /\ IsJsonSpace(CharAt(s, i)) THEN SkipSpace(s, i + 1) ELSE i

JsonFail == [ok |-> FALSE, end |-> 0, value |-> Null]

JsonRead(end, value) == [ok |-> TRUE, end |-> end, value |-> value]

\* the index of the quote that closes the string opened at i - 1; 0 when a
\* control character comes first or the text ends
RECURSIVE StringEnd(_, _)
StringEnd(s, i) ==
    IF i > Len(s) \/ CharAt(s, i) \in {"\n", "\r", "\t"} THEN 0
    ELSE IF CharAt(s, i) = Quote THEN i
    ELSE StringEnd(s, i + 1)

\* a string literal at i
JsonStringAt(s, i) ==
    LET Closed(end) ==
            IF end = 0 THEN JsonFail ELSE JsonRead(end, Str(SubSeq(s, i + 1, end - 1)))
    IN  IF i <= Len(s) /\ CharAt(s, i) = Quote THEN Once(StringEnd(s, i + 1), Closed)
        ELSE JsonFail

\* the last index of the number literal at i: -? (0 | [1-9] digits) (. digits)?
\* ([eE] [+-]? digits)?; i - 1 when there is none
JsonNumberEnd(s, i) ==
    LET Exponent(end, signed) ==
            IF DigitEnd(s, end + 2 + signed) >= end + 2 + signed
            THEN DigitEnd(s, end + 2 + signed) ELSE end
        ExponentPart(end) ==
            IF end < Len(s) /\ CharAt(s, end + 1) \in {"e", "E"}
            THEN Exponent(end, IF end + 2 <= Len(s) /\ CharAt(s, end + 2) \in {"+", "-"}
                               THEN 1 ELSE 0)
            ELSE end
        FractionPart(end) ==
            IF end < Len(s) /\ CharAt(s, end + 1) = "." /\ DigitEnd(s, end + 2) >= end + 2
            THEN ExponentPart(DigitEnd(s, end + 2))
            ELSE ExponentPart(end)
        IntegerPart(first) ==
            IF first > Len(s) \/ ~IsDigit(CharAt(s, first)) THEN i - 1
            ELSE IF CharAt(s, first) = "0" THEN FractionPart(first)
            ELSE FractionPart(DigitEnd(s, first))
    IN  IntegerPart(IF i <= Len(s) /\ CharAt(s, i) = "-" THEN i + 1 ELSE i)

JsonNumberAt(s, i) ==
    LET Literal(end) ==
            IF end < i THEN JsonFail
            ELSE JsonRead(end, [t |-> "number", v |-> DecimalPrefix(SubSeq(s, i, end)).value])
    IN  Once(JsonNumberEnd(s, i), Literal)

JsonLiteralAt(s, i) ==
    IF SubSeq(s, i, Min(i + 3, Len(s))) = "true" THEN JsonRead(i + 3, Bool(TRUE))
    ELSE IF SubSeq(s, i, Min(i + 4, Len(s))) = "false" THEN JsonRead(i + 4, Bool(FALSE))
    ELSE IF SubSeq(s, i, Min(i + 3, Len(s))) = "null" THEN JsonRead(i + 3, Null)
    ELSE JsonFail

RECURSIVE JsonValueAt(_, _)
RECURSIVE JsonElements(_, _, _)
RECURSIVE JsonMembers(_, _, _)

\* the elements of an array from i on, behind the elements read so far
JsonElements(s, i, values) ==
    LET Next(element, next) ==
            IF next > Len(s) THEN JsonFail
            ELSE IF CharAt(s, next) = "," THEN JsonElements(s, next + 1, Append(values, element))
            ELSE IF CharAt(s, next) = "]" THEN JsonRead(next, Array(Append(values, element)))
            ELSE JsonFail
        Element(read) ==
            IF ~read.ok THEN JsonFail ELSE Next(read.value, SkipSpace(s, read.end + 1))
    IN  Once(JsonValueAt(s, i), Element)

\* the members of an object from i on, behind the properties read so far
JsonMembers(s, i, properties) ==
    LET Next(name, member, next) ==
            IF next > Len(s) THEN JsonFail
            ELSE IF CharAt(s, next) = ","
            THEN JsonMembers(s, next + 1, MapSet(properties, name, member))
            ELSE IF CharAt(s, next) = "}"
            THEN JsonRead(next, Object(MapSet(properties, name, member)))
            ELSE JsonFail
        Member(name, read) ==
            IF ~read.ok THEN JsonFail ELSE Next(name, read.value, SkipSpace(s, read.end + 1))
        Colon(name, colon) ==
            IF colon > Len(s) \/ CharAt(s, colon) # ":" THEN JsonFail
            ELSE Once(JsonValueAt(s, colon + 1), LAMBDA read : Member(name, read))
        Name(read) ==
            IF ~read.ok THEN JsonFail ELSE Colon(read.value.v, SkipSpace(s, read.end + 1))
    IN  Once(JsonStringAt(s, SkipSpace(s, i)), Name)

\* the JSON value that starts at or behind i
JsonValueAt(s, i) ==
    LET Opened(first, inner) ==
            IF CharAt(s, first) = "["
            THEN IF inner <= Len(s) /\ CharAt(s, inner) = "]" THEN JsonRead(inner, Array(<<>>))
                 ELSE JsonElements(s, inner, <<>>)
            ELSE IF inner <= Len(s) /\ CharAt(s, inner) = "}" THEN JsonRead(inner, Object(<<>>))
                 ELSE JsonMembers(s, inner, <<>>)
        Value(first) ==
            IF first > Len(s) THEN JsonFail
            ELSE IF CharAt(s, first) \in {"[", "{"} THEN Opened(first, SkipSpace(s, first + 1))
            ELSE IF CharAt(s, first) = Quote THEN JsonStringAt(s, first)
            ELSE IF CharAt(s, first) = "-" \/ IsDigit(CharAt(s, first))
            THEN JsonNumberAt(s, first)
            ELSE JsonLiteralAt(s, first)
    IN  Value(SkipSpace(s, i))

\* JSON.parse(text): ok is FALSE where it throws a SyntaxError
JsonParse(text) ==
    LET Whole(read) ==
            IF read.ok /\ SkipSpace(text, read.end + 1) > Len(text) THEN read ELSE JsonFail
    IN  Once(JsonValueAt(text, 1), Whole)

\* array.filter(line => line.trim())
RECURSIVE NonBlank(_)
NonBlank(lines) ==
    IF lines = <<>> THEN <<>>
    ELSE IF Trim(Head(lines)) = "" THEN NonBlank(Tail(lines))
    ELSE <<Head(lines)>> \o NonBlank(Tail(lines))

\* the decimal text of an array index
IndexKeys(n) == [i \in 1..n |-> ToString(i - 1)]

\* Object.keys(value) for a value that is neither null nor undefined
ObjectKeys(value) ==
    IF value.t = "object" THEN [i \in 1..Len(value.v) |-> value.v[i].key]
    ELSE IF value.t \in {"array", "string"} THEN IndexKeys(Len(value.v))
    ELSE <<>>

\* value[key] for a value that is neither null nor undefined (the keys of the
\* model are not `length`)
Property(value, key) ==
    LET At(keys) ==
            IF \E i \in 1..Len(keys) : keys[i] = key
            THEN LET i == CHOOSE j \in 1..Len(keys) : keys[j] = key
                 IN  IF value.t = "string" THEN Str(CharAt(value.v, i)) ELSE value.v[i]
            ELSE Undefined
    IN  IF value.t = "object"
        THEN (IF MapHas(value.v, key) THEN MapGet(value.v, key) ELSE Undefined)
        ELSE At(ObjectKeys(value))

\* what a parser gives back: the headers and records, or the message of the
\* error it throws
Parsed(headers, data) == [error |-> "", headers |-> headers, data |-> data]

\* a parser that gives no rows where it should raise the error
Recovered(message) == Parsed(<<>>, <<>>)

Thrown(message) == [error |-> message, headers |-> <<>>, data |-> <<>>]

\* the message of the TypeError for reading a property of null
NullPropertyError == "Cannot read properties of null"

\* the message of the TypeError of Object.keys(null)
NullKeysError == "Cannot convert undefined or null to object"

\* the message of the SyntaxError of JSON.parse
JsonSyntaxError == "Unexpected token in JSON"

\* the last index at which the header stands
LastIndexOf(headers, header) ==
    CHOOSE i \in 1..Len(headers) :
        /\ headers[i] = header
        /\ \A j \in (i + 1)..Len(headers) : headers[j] # header

\* FileProcessor.processCSV: row[header] = this.parseValue(values[index]?.trim() || '')
\* for every header in turn; a header that stands twice keeps its first place
\* in the row and its last value
FtcCsvRow(headers, values) ==
    LET Cell(i) == IF i <= Len(values) THEN Str(Trim(values[i])) ELSE Str("")
        Keyed(keys) ==
            Object([k \in 1..Len(keys) |->
                       [key |-> keys[k],
                        value |-> ParseValue(Cell(LastIndexOf(headers, keys[k])))]])
    IN  Once(Distinct(headers), Keyed)

FtcProcessCSV(text) ==
    LET Rows(lines, headers) ==
            Parsed(headers,
                   [i \in 1..(Len(lines) - 1) |->
                       Once(FtcParseCSVLine(lines[i + 1]),
                            LAMBDA values : FtcCsvRow(headers, values))])
        FromLines(lines) ==
            IF Len(lines) < 2
            THEN Thrown("CSV file must contain at least a header row and one data row.")
            ELSE Once(FtcParseCSVLine(lines[1]), LAMBDA headers : Rows(lines, headers))
    IN  Once(Split(Trim(text), "\n"), FromLines)

\* the keys of the items that are objects, in the order of a Set
RECURSIVE HeaderSet(_)
HeaderSet(data) ==
    IF data = <<>> THEN <<>>
    ELSE LET item == data[Len(data)]
         IN  Distinct(HeaderSet(SubSeq(data, 1, Len(data) - 1))
                      \o (IF item.t \in {"object", "array"} THEN ObjectKeys(item) ELSE <<>>))

\* processJSON from `data` on: the headers of all items, every item normalised
FtcNormalize(data) ==
    LET Normalized(item, headers) ==
            Object([i \in 1..Len(headers) |->
                       [key |-> headers[i], value |-> ParseValue(Property(item, headers[i]))]])
    IN  IF Len(data) = 0
        THEN Thrown("JSON file contains no data. Please provide a file with data entries.")
        ELSE Once(HeaderSet(data), LAMBDA headers :
             IF headers # <<>> /\ \E i \in 1..Len(data) : data[i].t = "null"
             THEN Thrown(NullPropertyError)
             ELSE Parsed(headers, [i \in 1..Len(data) |-> Normalized(data[i], headers)]))

FtcProcessJSON(text) ==
    Once(JsonParse(text), LAMBDA read :
        IF ~read.ok
        THEN Thrown("Invalid JSON format. Please ensure the file contains valid JSON.")
        ELSE FtcNormalize(IF read.value.t = "array" THEN read.value.v ELSE <<read.value>>))

\* file.name.toLowerCase().split('.').pop()
RECURSIVE FileExtension(_)
FileExtension(name) ==
    LET AfterDot(dot) ==
            IF dot = 0 THEN ToLowerCase(name)
            ELSE FileExtension(SubSeq(name, dot + 1, Len(name)))
    IN  Once(IndexOfChar(name, "."), AfterDot)

\* the try block of FileToChart handleFileUpload up to the records check
FtcProcessFile(file) ==
    LET Checked(result) ==
            IF result.error = "" /\ Len(result.data) = 0
            THEN Thrown("No valid data records found in the file after processing.")
            ELSE result
        Switch(fileExtension) ==
            IF fileExtension \in {"csv", "tsv"} THEN Once(FtcProcessCSV(file.text), Checked)
            ELSE IF fileExtension \in {"json", "jsonl"}
            THEN Once(FtcProcessJSON(file.text), Checked)
            ELSE Thrown("Unsupported file format: \"." \o fileExtension
                        \o "\". Supported formats are CSV, JSON, and TSV.")
    IN  Once(FileExtension(file.name), Switch)

\* AnimateChart parseCSV: row[header] = values[index] || ''
AcCsvRow(headers, values) ==
    LET Cell(i) == IF i <= Len(values) THEN Str(values[i]) ELSE Str("")
        Keyed(keys) ==
            Object([k \in 1..Len(keys) |->
                       [key |-> keys[k], value |-> Cell(LastIndexOf(headers, keys[k]))]])
    IN  Once(Distinct(headers), Keyed)

AcParseCSV(csv) ==
    LET Rows(lines, headers) ==
            Parsed(headers,
                   [i \in 1..(Len(lines) - 1) |->
                       Once(AcParseCSVLine(lines[i + 1]),
                            LAMBDA values : AcCsvRow(headers, values))])
        FromLines(lines) ==
            IF Len(lines) < 2
            THEN Thrown("CSV file must have at least a header and one data row")
            ELSE Once(AcParseCSVLine(lines[1]), LAMBDA headers : Rows(lines, headers))
    IN  Once(NonBlank(Split(Trim(csv), "\n")), FromLines)

\* the json branch of AnimateChart parseFileData up to processStandardData:
\* an object gives the list under its first key, or itself as the one record
AcParseJson(content) ==
    LET FirstKey(data, keys) ==
            IF Len(keys) > 0 /\ Property(data, keys[1]).t = "array"
            THEN Parsed(<<>>, Property(data, keys[1]).v)
            ELSE Parsed(<<>>, <<data>>)
        Data(data) ==
            IF data.t = "array" THEN Parsed(<<>>, data.v)
            ELSE IF data.t = "null" THEN Thrown(NullKeysError)
            ELSE FirstKey(data, ObjectKeys(data))
        Json(read) == IF ~read.ok THEN Thrown(JsonSyntaxError) ELSE Data(read.value)
    IN  Once(JsonParse(content), Json)

\* AnimateChart parseFileData for a text file, with the checks of
\* processStandardData in front of its state changes
AcParseFileData(file) ==
    LET Standard(result) ==
            IF result.error # "" THEN result
            ELSE IF Len(result.data) = 0 THEN Thrown("No valid data found in file")
            ELSE IF result.data[1].t = "null" THEN Thrown(NullKeysError)
            ELSE Parsed(ObjectKeys(result.data[1]), result.data)
    IN  IF EndsWith(ToLowerCase(file.name), ".csv") THEN Once(AcParseCSV(file.text), Standard)
        ELSE Once(AcParseJson(file.text), Standard)

-----------------------------------------------------------------------------
(* File upload of the two chart pages                                      *)
(*   FileToChart.tsx handleFileUpload, AnimateChart.tsx handleFile ...     *)

MaxUploads == 2

\* selectedFile === null, chartData === null, no columns selected
NoFile == 0

File(name, text) == [name |-> name, text |-> text, oversize |-> FALSE]

\* a file of more than MAX_FILE_SIZE_MB
Oversize(name) == [name |-> name, text |-> "", oversize |-> TRUE]

TableCsv == "k,v\nx,1\ny,2\n"

TableJson == "[{\"k\": \"x\", \"v\": 1}, {\"k\": \"y\", \"v\": 2}]"

\* the files submitted to FileToChart
FtcFiles ==
    { Oversize("big.csv"),
      File("notes.txt", TableCsv),
      File("sales.csv", TableCsv),
      File("header.csv", "k,v\n"),
      File("names.csv", "k\nx\ny"),
      File("sales.json", TableJson),
      File("broken.json", "[{\"k\": \"x\", "),
      File("lines.jsonl", "{\"k\": 1}\n{\"k\": 2}"),
      File("empty.json", "[]"),
      File("numbers.json", "[1, 2]") }

\* what a submitted file turns out to be, FileToChart
FtcFileKind(file) ==
    LET Processed(result) ==
            IF result.error # "" THEN "failed"
            ELSE IF Len(result.headers) >= 2 THEN "table"
            ELSE "one-column"
    IN  IF file.oversize THEN "oversize" ELSE Once(FtcProcessFile(file), Processed)

\* the files submitted to AnimateChart
AcFiles ==
    { File("notes.txt", TableCsv),
      File("sales.csv", TableCsv),
      File("header.csv", "k,v\n\n"),
      File("names.csv", "k\nx\ny"),
      File("sales.json", TableJson),
      File("broken.json", "[{\"k\": \"x\", "),
      File("empty.json", "[]"),
      File("book.xlsx", "") }

\* what a submitted file is by its name, AnimateChart
AcFileKind(file) ==
    IF EndsWith(ToLowerCase(file.name), ".csv") THEN "csv"
    ELSE IF EndsWith(ToLowerCase(file.name), ".json") THEN "json"
    ELSE IF EndsWith(ToLowerCase(file.name), ".xlsx") \/ EndsWith(ToLowerCase(file.name), ".xls")
    THEN "xlsx"
    ELSE "other"

\* what the content of a text file read by AnimateChart turns out to be
AcContent(file) ==
    LET Processed(result) ==
            IF result.error # "" THEN "failed"
            ELSE IF Len(result.headers) >= 2 THEN "table"
            ELSE "one-column"
    IN  Once(AcParseFileData(file), Processed)

\* [uploadedFile, ...prev.slice(0, 9)]
WithNewFile(prev, uploadedFile) == <<uploadedFile>> \o SubSeq(prev, 1, Min(9, Len(prev)))

\* addStatusMessage with the default duration: the message joins the list and
\* stays until its timer removes it
AddStatusMessage(messages, count, type, message) ==
    messages \cup {[id |-> count + 1, type |-> type, message |-> message]}

UploadInit ==
    /\ uploadPage \in Pages
    /\ isLoading = [p \in Pages |-> FALSE]
    /\ fileLoads = [p \in Pages |-> {}]
    /\ fileLoadCount = [p \in Pages |-> 0]
    /\ uploadedFiles = <<>>
    /\ selectedFile = NoFile
    /\ selectedColumns = [p \in Pages |-> NoFile]
    /\ chartData = [p \in Pages |-> NoFile]
    /\ statusMessages = {}
    /\ statusCount = 0
    /\ currentSheetData = NoFile
    /\ excelWorkbook = NoFile
    /\ showExcelControls = FALSE

UploadIdle ==
    /\ uploadPage = "FTC"
    /\ isLoading = [p \in Pages |-> FALSE]
    /\ fileLoads = [p \in Pages |-> {}]
    /\ fileLoadCount = [p \in Pages |-> 0]
    /\ uploadedFiles = <<>>
    /\ selectedFile = NoFile
    /\ selectedColumns = [p \in Pages |-> NoFile]
    /\ chartData = [p \in Pages |-> NoFile]
    /\ statusMessages = {}
    /\ statusCount = 0
    /\ currentSheetData = NoFile
    /\ excelWorkbook = NoFile
    /\ showExcelControls = FALSE

\* FileToChart handleFileUpload up to `await file.text()`: the change event of
\* the file input, or a drop on the upload zone
FtcHandleFileUpload ==
    /\ UNCHANGED <<moreVars, aggVars, parseVars, csvVars, erVars, chartVars, exportVars>>
    /\ uploadPage = "FTC"
    /\ fileLoadCount["FTC"] < MaxUploads
    /\ \E file \in FtcFiles :
        IF file.oversize
        THEN /\ statusMessages' = AddStatusMessage(statusMessages, statusCount, "error",
                                                   "File size exceeds the limit")
             /\ statusCount' = statusCount + 1
             /\ fileLoadCount' = [fileLoadCount EXCEPT !["FTC"] = @ + 1]
             /\ UNCHANGED <<isLoading, fileLoads>>
        ELSE /\ isLoading' = [isLoading EXCEPT !["FTC"] = TRUE]
             /\ statusMessages' = AddStatusMessage(statusMessages, statusCount, "info",
                                                   "Processing")
             /\ statusCount' = statusCount + 1
             /\ fileLoadCount' = [fileLoadCount EXCEPT !["FTC"] = @ + 1]
             /\ fileLoads' = [fileLoads EXCEPT !["FTC"] =
                                @ \cup {[load |-> fileLoadCount["FTC"] + 1, file |-> file,
                                         stage |-> "reading"]}]
    /\ UNCHANGED <<uploadPage, uploadedFiles, selectedFile, selectedColumns, chartData,
                   currentSheetData, excelWorkbook, showExcelControls>>

\* FileToChart handleFileUpload from the resolution of file.text() to its end
FtcFileTextDone ==
    /\ UNCHANGED <<moreVars, aggVars, parseVars, csvVars, erVars, exportVars>>
    /\ uploadPage = "FTC"
    /\ \E l \in fileLoads["FTC"] :
        /\ fileLoads' = [fileLoads EXCEPT !["FTC"] = @ \ {l}]
        \* finally
        /\ isLoading' = [isLoading EXCEPT !["FTC"] = FALSE]
        /\ IF FtcFileKind(l.file) = "table"
           THEN /\ uploadedFiles' = WithNewFile(uploadedFiles, l.load)
                /\ selectedFile' = l.load
                /\ selectedColumns' = [selectedColumns EXCEPT !["FTC"] = l.load]
                /\ chartData' = [chartData EXCEPT !["FTC"] = l.load]
                /\ statusMessages' = AddStatusMessage(statusMessages, statusCount, "success",
                                                      "Successfully loaded")
                /\ statusCount' = statusCount + 1
                \* the [chartData] effect: createChart(chartData)
                /\ CallCreateChart("FTC")
           ELSE IF FtcFileKind(l.file) = "one-column"
           THEN /\ uploadedFiles' = WithNewFile(uploadedFiles, l.load)
                /\ selectedFile' = l.load
                /\ selectedColumns' = [selectedColumns EXCEPT !["FTC"] = NoFile]
                /\ chartData' = [chartData EXCEPT !["FTC"] = NoFile]
                /\ statusMessages' =
                      AddStatusMessage(
                          AddStatusMessage(statusMessages, statusCount, "warning",
                                           "File contains insufficient columns"),
                          statusCount + 1, "success", "Successfully loaded")
                /\ statusCount' = statusCount + 2
                /\ UNCHANGED chartVars
           ELSE \* catch: addStatusMessage(error.message, 'error')
                /\ statusMessages' = AddStatusMessage(statusMessages, statusCount, "error",
                                                      FtcProcessFile(l.file).error)
                /\ statusCount' = statusCount + 1
                /\ selectedFile' = NoFile
                /\ chartData' = [chartData EXCEPT !["FTC"] = NoFile]
                /\ selectedColumns' = [selectedColumns EXCEPT !["FTC"] = NoFile]
                /\ UNCHANGED <<uploadedFiles, chartVars>>
    /\ UNCHANGED <<uploadPage, fileLoadCount, currentSheetData, excelWorkbook,
                   showExcelControls>>

\* FileToChart addStatusMessage's timer: the message is filtered out by its id
FtcStatusMessageTimer ==
    /\ UNCHANGED <<moreVars, aggVars, parseVars, csvVars, erVars, chartVars, exportVars>>
    /\ \E m \in statusMessages : statusMessages' = statusMessages \ {m}
    /\ UNCHANGED <<uploadPage, isLoading, fileLoads, fileLoadCount, uploadedFiles,
                   selectedFile, selectedColumns, chartData, statusCount,
                   currentSheetData, excelWorkbook, showExcelControls>>

\* AnimateChart showStatus(message, type): the new statusMessage
Status(message, type) == [message |-> message, type |-> type]

\* AnimateChart handleFile: the change event of the file input, or handleDrop
AcHandleFile ==
    /\ UNCHANGED <<moreVars, aggVars, parseVars, csvVars, erVars, chartVars, exportCore>>
    /\ uploadPage = "AC"
    /\ fileLoadCount["AC"] < MaxUploads
    /\ fileLoadCount' = [fileLoadCount EXCEPT !["AC"] = @ + 1]
    /\ statusTimers' = TimersAfterStatus(statusTimers, "warning")
    /\ \E file \in AcFiles :
        IF AcFileKind(file) = "other"
        THEN /\ statusMessage' = Status("Unsupported file type", "error")
             /\ isLoading' = [isLoading EXCEPT !["AC"] = FALSE]
             /\ UNCHANGED fileLoads
        ELSE /\ statusMessage' = Status("Processing file", "warning")
             /\ isLoading' = [isLoading EXCEPT !["AC"] = TRUE]
             /\ fileLoads' = [fileLoads EXCEPT !["AC"] =
                                @ \cup {[load |-> fileLoadCount["AC"] + 1, file |-> file,
                                         stage |-> "reading"]}]
    /\ UNCHANGED <<uploadPage, uploadedFiles, selectedFile, selectedColumns, chartData,
                   statusMessages, statusCount, currentSheetData, excelWorkbook,
                   showExcelControls>>

\* what a sheet read by loadSheetData turns out to be
AcContents == {"malformed", "no-records", "one-column", "table"}

\* AnimateChart: FileReader onerror
AcReaderError ==
    /\ UNCHANGED <<moreVars, aggVars, parseVars, csvVars, erVars, chartVars, exportCore>>
    /\ uploadPage = "AC"
    /\ \E l \in fileLoads["AC"] :
        /\ l.stage = "reading"
        /\ fileLoads' = [fileLoads EXCEPT !["AC"] = @ \ {l}]
    /\ statusMessage' = Status("Error reading file", "error")
    /\ isLoading' = [isLoading EXCEPT !["AC"] = FALSE]
    /\ UNCHANGED <<uploadPage, fileLoadCount, uploadedFiles, selectedFile, selectedColumns,
                   chartData, statusMessages, statusCount, currentSheetData, excelWorkbook,
                   showExcelControls, statusTimers>>

\* AnimateChart: FileReader onload -> parseFileData -> processStandardData, or
\* processExcelFile up to its `await import('xlsx')`
AcReaderLoad ==
    /\ UNCHANGED <<moreVars, aggVars, parseVars, csvVars, erVars, exportCore>>
    /\ uploadPage = "AC"
    /\ \E l \in fileLoads["AC"] :
        /\ l.stage = "reading"
        /\ IF AcFileKind(l.file) = "xlsx"
           THEN /\ fileLoads' = [fileLoads EXCEPT !["AC"] =
                                   (@ \ {l}) \cup {[l EXCEPT !.stage = "importing"]}]
                /\ UNCHANGED <<isLoading, statusMessage, statusTimers, currentSheetData,
                               selectedColumns, chartData, chartVars>>
           ELSE /\ fileLoads' = [fileLoads EXCEPT !["AC"] = @ \ {l}]
                /\ isLoading' = [isLoading EXCEPT !["AC"] = FALSE]
                /\ IF AcContent(l.file) = "table"
                   THEN /\ currentSheetData' = l.load
                        /\ selectedColumns' = [selectedColumns EXCEPT !["AC"] = l.load]
                        /\ chartData' = [chartData EXCEPT !["AC"] = l.load]
                        /\ CallCreateChart("AC")
                        /\ statusMessage' = Status("File uploaded successfully", "success")
                        /\ statusTimers' = TimersAfterStatus(statusTimers, "success")
                   ELSE IF AcContent(l.file) = "one-column"
                   THEN \* processDataForChart throws: fewer than 2 columns
                        /\ currentSheetData' = l.load
                        /\ statusMessage' =
                              Status("Error parsing file: Data must have at least 2 columns",
                                     "error")
                        /\ UNCHANGED <<selectedColumns, chartData, chartVars, statusTimers>>
                   ELSE \* catch: showStatus(`Error parsing file: ${error.message}`, 'error')
                        /\ statusMessage' =
                              Status("Error parsing file: " \o AcParseFileData(l.file).error,
                                     "error")
                        /\ UNCHANGED <<currentSheetData, selectedColumns, chartData,
                                       chartVars, statusTimers>>
    /\ UNCHANGED <<uploadPage, fileLoadCount, uploadedFiles, selectedFile, statusMessages,
                   statusCount, excelWorkbook, showExcelControls>>

\* the workbook read by processExcelFile
AcWorkbooks == {"malformed", "one-sheet", "many-sheets"}

\* AnimateChart processExcelFile after the import: one sheet goes on to
\* loadSheetData, which waits for its own import
AcExcelImported ==
    /\ UNCHANGED <<moreVars, aggVars, parseVars, csvVars, erVars, chartVars, exportCore>>
    /\ uploadPage = "AC"
    /\ \E l \in fileLoads["AC"], workbook \in AcWorkbooks :
        /\ l.stage = "importing"
        /\ isLoading' = [isLoading EXCEPT !["AC"] = FALSE]
        /\ IF workbook = "malformed"
           THEN /\ fileLoads' = [fileLoads EXCEPT !["AC"] = @ \ {l}]
                /\ statusMessage' = Status("Error processing Excel file", "error")
                /\ UNCHANGED <<excelWorkbook, showExcelControls, statusTimers>>
           ELSE /\ excelWorkbook' = l.load
                /\ showExcelControls' = TRUE
                /\ fileLoads' = [fileLoads EXCEPT !["AC"] =
                                   IF workbook = "one-sheet"
                                   THEN (@ \ {l}) \cup {[l EXCEPT !.stage = "loading-sheet"]}
                                   ELSE @ \ {l}]
                /\ statusMessage' = Status("Excel file loaded", "success")
                /\ statusTimers' = TimersAfterStatus(statusTimers, "success")
    /\ UNCHANGED <<uploadPage, fileLoadCount, uploadedFiles, selectedFile, selectedColumns,
                   chartData, statusMessages, statusCount, currentSheetData>>

\* AnimateChart loadSheetData after its import
AcSheetLoaded ==
    /\ UNCHANGED <<moreVars, aggVars, parseVars, csvVars, erVars, exportCore>>
    /\ uploadPage = "AC"
    /\ \E l \in fileLoads["AC"], content \in AcContents :
        /\ l.stage = "loading-sheet"
        /\ fileLoads' = [fileLoads EXCEPT !["AC"] = @ \ {l}]
        /\ IF content = "malformed"
           THEN /\ statusMessage' = Status("Error loading sheet", "error")
                /\ UNCHANGED <<currentSheetData, selectedColumns, chartData, chartVars,
                               statusTimers>>
           ELSE IF content = "no-records"
           THEN /\ statusMessage' = Status("Selected sheet is empty", "warning")
                /\ statusTimers' = TimersAfterStatus(statusTimers, "warning")
                /\ UNCHANGED <<currentSheetData, selectedColumns, chartData, chartVars>>
           ELSE IF content = "one-column"
           THEN /\ currentSheetData' = l.load
                /\ statusMessage' = Status("Sheet loaded", "success")
                /\ statusTimers' = TimersAfterStatus(statusTimers, "success")
                /\ UNCHANGED <<selectedColumns, chartData, chartVars>>
           ELSE /\ currentSheetData' = l.load
                /\ selectedColumns' = [selectedColumns EXCEPT !["AC"] = l.load]
                /\ chartData' = [chartData EXCEPT !["AC"] = l.load]
                /\ CallCreateChart("AC")
                /\ statusMessage' = Status("Sheet loaded", "success")
                /\ statusTimers' = TimersAfterStatus(statusTimers, "success")
    /\ UNCHANGED <<uploadPage, isLoading, fileLoadCount, uploadedFiles, selectedFile,
                   statusMessages, statusCount, excelWorkbook, showExcelControls>>

UploadNext ==
    \/ FtcHandleFileUpload
    \/ FtcFileTextDone
    \/ FtcStatusMessageTimer
    \/ FtcCreateChartResume
    \/ FtcChartReadyTimer
    \/ AcHandleFile
    \/ AcReaderError
    \/ AcReaderLoad
    \/ AcExcelImported
    \/ AcSheetLoaded
    \/ AcCreateChartResume
    \/ StatusTimer

-----------------------------------------------------------------------------
(* Column selection and chart data of the two chart pages                  *)
(*   FileToChart.tsx handleFileUpload (column auto-selection), selectFile, *)
(*   handleColumnChange, handleChartConfigChange, updateChart;             *)
(*   AnimateChart.tsx processStandardData, the column selects, the column  *)
(*   effect, selectChartType                                               *)

\* a file after processing: its headers and its records
SourceFile(name, headers, data) == [name |-> name, headers |-> headers, data |-> data]

\* the processed files: a number column second, a text column second and a
\* number column third, a number column first, two text columns
SourceFiles ==
    { SourceFile("sales", Columns,
                 <<Row(Str("x"), Num(1), Str("a")), Row(Str("y"), Num(5), Str("b")),
                   Row(Str("x"), Num(2), Str("b"))>>),
      SourceFile("grades", Columns,
                 <<Row(Str("x"), Str("low"), Num(2)), Row(Str("y"), Str("high"), Num(3))>>),
      SourceFile("years", Columns,
                 <<Row(Num(2019), Num(4), Str("a")), Row(Num(2020), Num(6), Str("a"))>>),
      SourceFile("pairs", <<"k", "v">>,
                 <<[k |-> Str("x"), v |-> Str("p")], [k |-> Str("y"), v |-> Str("q")]>>) }

\* selectedFile === null, currentSheetData === null
NoSource == SourceFile("", <<>>, <<>>)

\* chartData === null
NoChartData == NoSeries("null", "none")

ChartTypes == {"bar", "line", "area"}

\* how many times the user acts on the page
MaxViewEvents == 4

\* { label: '', value: '', series: '' }
NoColumns == [label |-> "", value |-> "", series |-> ""]

\* the entries of a sequence as a set
Range(seq) == {seq[i] : i \in 1..Len(seq)}

\* FileToChart processDataForChart with the styling of the chart type in the
\* datasets: the opacity of the fill colour, tension and fill
FtcChartData(data, columns, type) ==
    Once(FtcProcessDataForChart(data, columns.label, columns.value, columns.series),
         LAMBDA processed :
            IF processed.returned # "series" THEN processed
            ELSE [processed EXCEPT
                    !.datasets =
                        [n \in 1..Len(processed.datasets) |->
                            [label |-> processed.datasets[n].label,
                             data |-> processed.datasets[n].data,
                             backgroundColor |-> IF type \in {"line", "area"} THEN "20" ELSE "80",
                             tension |-> IF type = "line" THEN "0.4" ELSE "0",
                             fill |-> type = "area"]]])

\* FileToChart handleFileUpload: the columns selected for a file of two or more
\* headers
FtcAutoColumns(headers, processedData) ==
    LET numerics ==
            SelectSeq(headers,
                      LAMBDA col : \E i \in 1..Len(processedData) :
                                       processedData[i][col].t = "number")
    IN  [label |-> headers[1],
         value |-> IF Len(numerics) > 0 THEN numerics[1] ELSE headers[2],
         series |-> IF Len(headers) > 2 THEN headers[3] ELSE ""]

\* AnimateChart processStandardData: the columns selected for a file of two or
\* more columns
AcAutoColumns(columns) ==
    LET others == SelectSeq(columns, LAMBDA col : col # columns[1])
    IN  [label |-> columns[1],
         value |-> IF Len(others) > 0 THEN others[1] ELSE columns[2],
         series |-> ""]

\* useState initial values of the page
SelectStart(page) ==
    IF page = "FTC"
    THEN [uploadedFiles |-> {}, selectedFile |-> NoSource, selectedColumns |-> NoColumns,
          chartType |-> "bar", chartData |-> NoChartData, status |-> "none",
          events |-> 0]
    ELSE [currentSheetData |-> NoSource, selectedColumns |-> NoColumns,
          chartType |-> "bar", chartData |-> NoChartData, status |-> "none",
          events |-> 0]

SelectInit ==
    /\ viewPage \in Pages
    /\ viewState = SelectStart(viewPage)

SelectIdle ==
    /\ viewPage = "FTC"
    /\ viewState = SelectStart("FTC")

\* FileToChart handleFileUpload for a file processed into records: the file is
\* listed and selected, columns are selected and the chart data is made
FtcLoadFile ==
    /\ UNCHANGED selectOthers
    /\ viewPage = "FTC"
    /\ \E file \in SourceFiles :
        viewState' =
            IF Len(file.headers) >= 2
            THEN Once(FtcAutoColumns(file.headers, file.data), LAMBDA columns :
                 Once(FtcChartData(file.data, columns, viewState.chartType),
                      LAMBDA newChartData :
                        [viewState EXCEPT !.events = @ + 1,
                            !.uploadedFiles = @ \cup {file},
                            !.selectedFile = file,
                            !.selectedColumns = columns,
                            !.chartData = IF newChartData.returned = "series"
                                          THEN newChartData ELSE @,
                            !.status = "success"]))
            ELSE [viewState EXCEPT !.events = @ + 1,
                    !.uploadedFiles = @ \cup {file},
                    !.selectedFile = file,
                    !.selectedColumns = NoColumns,
                    !.chartData = NoChartData,
                    !.status = "success"]
    /\ viewState.events < MaxViewEvents
    /\ UNCHANGED viewPage

\* FileToChart selectFile: a click on a file of the list
FtcSelectFile ==
    /\ UNCHANGED selectOthers
    /\ viewPage = "FTC"
    /\ \E file \in viewState.uploadedFiles :
        viewState' = [viewState EXCEPT !.events = @ + 1, !.selectedFile = file,
                                       !.selectedColumns = NoColumns,
                                       !.chartData = NoChartData,
                                       !.status = "info"]
    /\ viewState.events < MaxViewEvents
    /\ UNCHANGED viewPage

\* FileToChart handleColumnChange: one of the three selects is changed
FtcHandleColumnChange ==
    /\ UNCHANGED selectOthers
    /\ viewPage = "FTC"
    /\ viewState.selectedFile # NoSource
    /\ \E type \in {"label", "value", "series"},
          value \in Range(viewState.selectedFile.headers) \cup {""} :
        /\ viewState.selectedColumns[type] # value
        /\ viewState' = [viewState EXCEPT !.events = @ + 1, !.selectedColumns[type] = value]
    /\ viewState.events < MaxViewEvents
    /\ UNCHANGED viewPage

\* FileToChart handleChartConfigChange('type', value), and the [chartConfig]
\* effect, which draws the chart from the chart data there is
FtcHandleChartConfigChange ==
    /\ UNCHANGED selectOthers
    /\ viewPage = "FTC"
    /\ \E type \in ChartTypes \ {viewState.chartType} :
        viewState' = [viewState EXCEPT !.events = @ + 1, !.chartType = type]
    /\ viewState.events < MaxViewEvents
    /\ UNCHANGED viewPage

\* FileToChart updateChart: the Update Chart button
FtcUpdateChart ==
    /\ UNCHANGED selectOthers
    /\ viewPage = "FTC"
    /\ viewState' =
        IF viewState.selectedFile = NoSource
           \/ viewState.selectedColumns.label = "" \/ viewState.selectedColumns.value = ""
        THEN [viewState EXCEPT !.events = @ + 1, !.status = "warning"]
        ELSE Once(FtcChartData(viewState.selectedFile.data, viewState.selectedColumns,
                               viewState.chartType),
                  LAMBDA newChartData :
                    IF newChartData.returned = "series"
                    THEN [viewState EXCEPT !.events = @ + 1, !.chartData = newChartData]
                    ELSE [viewState EXCEPT !.events = @ + 1, !.status = "error"])
    /\ viewState.events < MaxViewEvents
    /\ UNCHANGED viewPage

\* AnimateChart processStandardData for the records of a file, and the column
\* effect behind it
AcLoadFile ==
    /\ UNCHANGED selectOthers
    /\ viewPage = "AC"
    /\ \E file \in SourceFiles :
        viewState' =
            IF Len(file.headers) >= 2
            THEN Once(AcAutoColumns(file.headers), LAMBDA columns :
                    [viewState EXCEPT !.events = @ + 1,
                        !.currentSheetData = file,
                        !.selectedColumns = columns,
                        !.chartData = AcProcessSelectedColumns(file.data, columns.label,
                                                               columns.value),
                        !.status = "success"])
            ELSE \* processDataForChart throws: fewer than 2 columns
                 [viewState EXCEPT !.events = @ + 1, !.currentSheetData = file, !.status = "error"]
    /\ viewState.events < MaxViewEvents
    /\ UNCHANGED viewPage

\* AnimateChart: onChange of the label or of the data column select, and the
\* column effect behind it
AcColumnChange ==
    /\ UNCHANGED selectOthers
    /\ viewPage = "AC"
    /\ viewState.currentSheetData # NoSource
    /\ \E type \in {"label", "value"},
          value \in Range(viewState.currentSheetData.headers) \cup {""} :
        /\ viewState.selectedColumns[type] # value
        /\ viewState' =
            Once([viewState.selectedColumns EXCEPT ![type] = value], LAMBDA columns :
                IF columns.label # "" /\ columns.value # ""
                THEN [viewState EXCEPT !.events = @ + 1,
                        !.selectedColumns = columns,
                        !.chartData =
                            AcProcessSelectedColumns(viewState.currentSheetData.data,
                                                     columns.label, columns.value),
                        !.status = "success"]
                ELSE [viewState EXCEPT !.events = @ + 1, !.selectedColumns = columns])
    /\ viewState.events < MaxViewEvents
    /\ UNCHANGED viewPage

\* AnimateChart selectChartType, and the [chartData, currentChartType] effect,
\* which draws the chart from the chart data there is
AcSelectChartType ==
    /\ UNCHANGED selectOthers
    /\ viewPage = "AC"
    /\ \E type \in ChartTypes \ {viewState.chartType} :
        viewState' = [viewState EXCEPT !.events = @ + 1, !.chartType = type]
    /\ viewState.events < MaxViewEvents
    /\ UNCHANGED viewPage

SelectNext ==
    \/ FtcLoadFile
    \/ FtcSelectFile
    \/ FtcHandleColumnChange
    \/ FtcHandleChartConfigChange
    \/ FtcUpdateChart
    \/ AcLoadFile
    \/ AcColumnChange
    \/ AcSelectChartType

-----------------------------------------------------------------------------
(* The records of a JSON text                                              *)
(*   FileToChart.tsx processJSON, AnimateChart.tsx parseFileData           *)

\* how many properties the object of a text has
MaxMembers == 3

\* the properties written in the objects of the texts
MemberTexts ==
    { "\"n\": 2",
      "\"rows\": [{\"k\": 1}, {\"k\": 2}]",
      "\"tags\": [\"a\"]",
      "\"o\": {\"k\": 1}" }

\* the texts joined by ", "
RECURSIVE JoinTexts(_)
JoinTexts(texts) ==
    IF texts = <<>> THEN ""
    ELSE IF Len(texts) = 1 THEN texts[1]
    ELSE texts[1] \o ", " \o JoinTexts(Tail(texts))

\* objects of up to MaxMembers different properties in every order, lists,
\* values that are neither, and a text that is not JSON
JsonTexts ==
    { "{" \o JoinTexts(members) \o "}" :
        members \in {list \in ListsUpTo(MemberTexts, MaxMembers) :
                        \A i, j \in 1..Len(list) : list[i] = list[j] => i = j} }
    \cup { "[{\"k\": 1}]", "[]", "[[1, 2], [3]]", "5", "null", "{\"k\": " }

RecordInit ==
    /\ jsonText \in JsonTexts
    /\ jsonRecords = [FTC |-> NotRun, AC |-> NotRun]

RecordIdle ==
    /\ jsonText = ""
    /\ jsonRecords = [FTC |-> NotRun, AC |-> NotRun]

\* FileToChart: processJSON(text)
FtcReadJson ==
    /\ UNCHANGED recordOthers
    /\ jsonRecords.FTC = NotRun
    /\ jsonRecords' = [jsonRecords EXCEPT !.FTC = FtcProcessJSON(jsonText)]
    /\ UNCHANGED jsonText

\* AnimateChart: the json branch of parseFileData
AcReadJson ==
    /\ UNCHANGED recordOthers
    /\ jsonRecords.AC = NotRun
    /\ jsonRecords' = [jsonRecords EXCEPT !.AC = AcParseJson(jsonText)]
    /\ UNCHANGED jsonText

RecordNext == FtcReadJson \/ AcReadJson

-----------------------------------------------------------------------------
(* Google login button                                                     *)
(*   GoogleLoginButton.tsx handleGoogleResponse, handleDevelopmentLogin    *)
(* login of the auth context and the callbacks onSuccess and onError of    *)
(* the parent are calls that return; the button is given both callbacks.   *)

\* how many times a login is attempted
MaxAttempts == 2

\* the user of a payload
Payload == Object(<<[key |-> "user", value |-> Str("ann")]>>)

\* the JSON values the endpoint answers with: objects with or without success,
\* data and error, and null
Envelopes ==
    { Object(success \o data \o error) :
        success \in {<<>>, <<[key |-> "success", value |-> Bool(TRUE)]>>,
                     <<[key |-> "success", value |-> Bool(FALSE)]>>},
        data \in {<<>>, <<[key |-> "data", value |-> Null]>>,
                  <<[key |-> "data", value |-> Payload]>>},
        error \in {<<>>, <<[key |-> "error", value |-> Str("")]>>,
                   <<[key |-> "error", value |-> Str("Invalid token")]>>} }
    \cup {Null}

\* no answer yet, and the answer of a request that was rejected or could not be
\* read as JSON
NoAnswer == [t |-> "none", v |-> ""]

Rejected == [t |-> "rejected", v |-> ""]

\* a call of login, onSuccess or onError made by an attempt
Call(attempt, name, arg) == [attempt |-> attempt, name |-> name, arg |-> arg]

\* a handler that logs in whenever success is set
CallsOnSuccessAlone(attempt, data, fallback) ==
    IF Truthy(Property(data, "success"))
    THEN <<Call(attempt, "login", Property(data, "data")),
           Call(attempt, "onSuccess", Undefined)>>
    ELSE <<Call(attempt, "onError", OrElse(Property(data, "error"), Str(fallback)))>>

\* the calls made for the envelope: data.success && data.data, data.error || fallback
EnvelopeCalls(attempt, data, fallback) ==
    IF Truthy(Property(data, "success")) /\ Truthy(Property(data, "data"))
    THEN <<Call(attempt, "login", Property(data, "data")),
           Call(attempt, "onSuccess", Undefined)>>
    ELSE <<Call(attempt, "onError", OrElse(Property(data, "error"), Str(fallback)))>>

\* the argument of onError in the catch block of the handler
CatchMessage(mode) ==
    IF mode = "development" THEN "Development login failed" ELSE "Network error during login"

\* the fallback for an envelope without an error string
ElseMessage(mode) == IF mode = "development" THEN "Development login failed" ELSE "Login failed"

LoginInit ==
    /\ authAttempts = <<>>
    /\ authCalls = <<>>
    /\ authIsLoading = FALSE

LoginIdle == LoginInit

\* handleGoogleResponse up to the await of fetch: the callback of the Google
\* button, with or without a credential
HandleGoogleResponse ==
    /\ UNCHANGED loginOthers
    /\ Len(authAttempts) < MaxAttempts
    /\ \E credential \in {Undefined, Str("token")} :
        IF ~Truthy(credential)
        THEN /\ authAttempts' = Append(authAttempts,
                                       [mode |-> "google", stage |-> "done",
                                        answer |-> NoAnswer])
             /\ authCalls' = Append(authCalls,
                                    Call(Len(authAttempts) + 1, "onError",
                                         Str("No credential received from Google")))
             /\ UNCHANGED authIsLoading
        ELSE /\ authAttempts' = Append(authAttempts,
                                       [mode |-> "google", stage |-> "fetch",
                                        answer |-> NoAnswer])
             /\ authIsLoading' = TRUE
             /\ UNCHANGED authCalls

\* handleDevelopmentLogin up to the await of googleAuth.signInWithPopup()
HandleDevelopmentLogin ==
    /\ UNCHANGED loginOthers
    /\ Len(authAttempts) < MaxAttempts
    /\ authAttempts' = Append(authAttempts,
                              [mode |-> "development", stage |-> "popup",
                               answer |-> NoAnswer])
    /\ authIsLoading' = TRUE
    /\ UNCHANGED authCalls

\* the catch and finally blocks of the handler of the attempt
Caught(attempt, answer) ==
    /\ authAttempts' = [authAttempts EXCEPT ![attempt].stage = "done",
                                            ![attempt].answer = answer]
    /\ authCalls' = Append(authCalls,
                           Call(attempt, "onError",
                                Str(CatchMessage(authAttempts[attempt].mode))))
    /\ authIsLoading' = FALSE

\* handleDevelopmentLogin: signInWithPopup resolves with the mock token, or rejects
PopupDone ==
    /\ UNCHANGED loginOthers
    /\ \E attempt \in 1..Len(authAttempts), resolved \in BOOLEAN :
        /\ authAttempts[attempt].stage = "popup"
        /\ IF resolved
           THEN /\ authAttempts' = [authAttempts EXCEPT ![attempt].stage = "fetch"]
                /\ UNCHANGED <<authCalls, authIsLoading>>
           ELSE Caught(attempt, Rejected)

\* fetch('/api/auth/google') resolves with a response, or rejects
FetchDone ==
    /\ UNCHANGED loginOthers
    /\ \E attempt \in 1..Len(authAttempts), resolved \in BOOLEAN :
        /\ authAttempts[attempt].stage = "fetch"
        /\ IF resolved
           THEN /\ authAttempts' = [authAttempts EXCEPT ![attempt].stage = "json"]
                /\ UNCHANGED <<authCalls, authIsLoading>>
           ELSE Caught(attempt, Rejected)

\* apiResponse.json() resolves with the envelope, or rejects; the handler runs
\* to its end
JsonDone ==
    /\ UNCHANGED loginOthers
    /\ \E attempt \in 1..Len(authAttempts) :
        /\ authAttempts[attempt].stage = "json"
        /\ \/ Caught(attempt, Rejected)
           \/ \E data \in Envelopes :
                IF data = Null
                THEN \* TypeError: data.success of null
                     Caught(attempt, data)
                ELSE /\ authAttempts' = [authAttempts EXCEPT ![attempt].stage = "done",
                                                             ![attempt].answer = data]
                     /\ authCalls' = authCalls
                                     \o EnvelopeCalls(attempt, data,
                                                      ElseMessage(authAttempts[attempt].mode))
                     /\ authIsLoading' = FALSE

LoginNext ==
    \/ HandleGoogleResponse
    \/ HandleDevelopmentLogin
    \/ PopupDone
    \/ FetchDone
    \/ JsonDone

\* handleManualLogin, the fallback button, which is rendered once Google is
\* loaded and is disabled while isLoading. apiPresent is window.google?.accounts?.id,
\* thrown is whether initialize or prompt throws.
HandleManualLogin ==
    /\ UNCHANGED loginOthers
    /\ Len(authAttempts) < MaxAttempts
    /\ ~authIsLoading
    /\ \E apiPresent \in BOOLEAN, thrown \in BOOLEAN :
        IF ~apiPresent
        THEN /\ authAttempts' = Append(authAttempts,
                                       [mode |-> "manual", stage |-> "done",
                                        answer |-> NoAnswer])
             /\ authIsLoading' = TRUE
             /\ UNCHANGED authCalls
        ELSE IF thrown
        THEN /\ authAttempts' = Append(authAttempts,
                                       [mode |-> "manual", stage |-> "done",
                                        answer |-> NoAnswer])
             /\ authCalls' = Append(authCalls,
                                    Call(Len(authAttempts) + 1, "onError",
                                         Str("Failed to initiate Google sign-in")))
             /\ authIsLoading' = FALSE
        ELSE /\ authAttempts' = Append(authAttempts,
                                       [mode |-> "manual", stage |-> "prompt",
                                        answer |-> NoAnswer])
             /\ authIsLoading' = TRUE
             /\ UNCHANGED authCalls

\* the moments the prompt notifies its callback of
Moments == {"displayed", "not-displayed", "skipped", "dismissed"}

\* the callback given to prompt(): notification.isNotDisplayed() ||
\* notification.isSkippedMoment()
PromptNotification ==
    /\ UNCHANGED loginOthers
    /\ \E attempt \in 1..Len(authAttempts), moment \in Moments :
        /\ \/ authAttempts[attempt].stage = "prompt"
              /\ moment \in {"displayed", "not-displayed"}
           \/ authAttempts[attempt].stage = "displayed"
              /\ moment \in {"skipped", "dismissed"}
        /\ IF moment \in {"not-displayed", "skipped"}
           THEN /\ authAttempts' = [authAttempts EXCEPT ![attempt].stage = "done"]
                /\ authIsLoading' = FALSE
                /\ authCalls' = Append(authCalls,
                                       Call(attempt, "onError",
                                            Str("Google sign-in was cancelled or unavailable")))
           ELSE /\ authAttempts' = [authAttempts EXCEPT ![attempt].stage = moment]
                /\ UNCHANGED <<authCalls, authIsLoading>>

\* handleGoogleResponse as the callback of the prompt, up to the await of fetch
PromptResponse ==
    /\ UNCHANGED loginOthers
    /\ \E attempt \in 1..Len(authAttempts), credential \in {Undefined, Str("token")} :
        /\ authAttempts[attempt].stage = "displayed"
        /\ IF ~Truthy(credential)
           THEN /\ authAttempts' = [authAttempts EXCEPT ![attempt].stage = "done"]
                /\ authCalls' = Append(authCalls,
                                       Call(attempt, "onError",
                                            Str("No credential received from Google")))
                /\ UNCHANGED authIsLoading
           ELSE /\ authAttempts' = [authAttempts EXCEPT ![attempt].stage = "fetch"]
                /\ authIsLoading' = TRUE
                /\ UNCHANGED authCalls

ManualLoginNext ==
    \/ HandleManualLogin
    \/ PromptNotification
    \/ PromptResponse
    \/ FetchDone
    \/ JsonDone

-----------------------------------------------------------------------------
(* AnimateChart: playAnimation, its timeouts and the animation frames.      *)
(* Time is counted in units of 100 ms. A timeout fires in the unit of time  *)
(* it is due, timeouts fire in the order of their due times, and frames are *)
(* rendered in every unit of time. Two clicks on Play Animation are at      *)
(* least one unit of time apart. The settings and the chart data stay as    *)
(* they are while the animations run.                                       *)

MaxPoints == 3
MaxPlays == 2

\* setTimeout(..., 200) of playAnimation
StartDelay == 2

ChartTypesAnimated ==
    {"bar", "line", "pie", "doughnut", "radar", "polarArea", "scatter", "bubble"}

\* the animationDelay slider: 0 ms, 100 ms, 300 ms
Delays == {0, 1, 3}

\* the animationDuration slider, as animationDuration * 1000: 0.5 s, 1 s
Durations == {5, 10}

\* the styles of applyEasing without sine and powers of two
Easings == {"linear", "easeInQuart", "easeOutQuart", "easeInOutQuart", "easeInOutBounce"}

PointLabels == <<"a", "b", "c", "d">>
PointValues == <<RInt(4), RInt(8), RInt(6), RInt(2)>>

\* chartData.labels and chartData.datasets[0].data
PointsOf(n) == [labels |-> SubSeq(PointLabels, 1, n), data |-> SubSeq(PointValues, 1, n)]

RPow4(a) == RMul(RMul(a, a), RMul(a, a))

\* easeOutBounce: 7.5625 = 121/16, 1/2.75 = 4/11
EaseOutBounce(t0) ==
    IF RLt(t0, Rat(4, 11)) THEN RMul(Rat(121, 16), RMul(t0, t0))
    ELSE IF RLt(t0, Rat(8, 11))
    THEN Once(RSub(t0, Rat(6, 11)), LAMBDA t :
             RAdd(RMul(Rat(121, 16), RMul(t, t)), Rat(3, 4)))
    ELSE IF RLt(t0, Rat(10, 11))
    THEN Once(RSub(t0, Rat(9, 11)), LAMBDA t :
             RAdd(RMul(Rat(121, 16), RMul(t, t)), Rat(15, 16)))
    ELSE Once(RSub(t0, Rat(21, 22)), LAMBDA t :
             RAdd(RMul(Rat(121, 16), RMul(t, t)), Rat(63, 64)))

EaseInOutQuart(t) ==
    IF RLt(t, Rat(1, 2)) THEN RMul(RInt(8), RPow4(t))
    ELSE RSub(RInt(1), RDiv(RPow4(RAdd(RMul(RInt(-2), t), RInt(2))), RInt(2)))

ApplyEasing(t, easing) ==
    IF easing = "linear" THEN t
    ELSE IF easing = "easeInQuart" THEN RPow4(t)
    ELSE IF easing = "easeOutQuart" THEN RSub(RInt(1), RPow4(RSub(RInt(1), t)))
    ELSE IF easing = "easeInOutQuart" THEN EaseInOutQuart(t)
    ELSE IF easing = "easeInOutBounce"
    THEN IF RLt(t, Rat(1, 2))
         THEN RDiv(RSub(RInt(1), EaseOutBounce(RSub(RInt(1), RMul(RInt(2), t)))), RInt(2))
         ELSE RDiv(RAdd(RInt(1), EaseOutBounce(RSub(RMul(RInt(2), t), RInt(1)))), RInt(2))
    ELSE EaseInOutQuart(t)

\* a pending setTimeout
Timeout(delay, kind, index, value, label, duration) ==
    [remaining |-> delay, kind |-> kind, index |-> index, value |-> value,
     label |-> label, duration |-> duration]

\* setTimeout: the new timeout is due after those due no later than it
SetTimeout(timeouts, timeout) ==
    LET before == Cardinality({i \in 1..Len(timeouts) :
                                  timeouts[i].remaining <= timeout.remaining})
    IN  SubSeq(timeouts, 1, before) \o <<timeout>>
            \o SubSeq(timeouts, before + 1, Len(timeouts))

\* the setTimeout calls of a forEach, element by element
RECURSIVE SetTimeouts(_, _)
SetTimeouts(timeouts, new) ==
    IF new = <<>> THEN timeouts
    ELSE SetTimeouts(SetTimeout(timeouts, Head(new)), Tail(new))

\* animateValue(0, end, duration, callback): the loop of frames it starts
Tween(index, end, duration) ==
    [index |-> index, start |-> RInt(0), end |-> end, duration |-> duration, elapsed |-> 0]

\* animate: the value one frame hands to the callback
TweenValue(tween, easing) ==
    Once(RMin(RDiv(RInt(tween.elapsed), tween.duration), RInt(1)), LAMBDA progress :
        RAdd(tween.start, RMul(RSub(tween.end, tween.start), ApplyEasing(progress, easing))))

\* progress < 1: the loop asks for another frame
TweenGoesOn(tween) == RLt(RDiv(RInt(tween.elapsed), tween.duration), RInt(1))

\* the callbacks of one frame, in the order the loops were started
RECURSIVE FrameWrites(_, _, _)
FrameWrites(data, tweens, easing) ==
    IF tweens = <<>> THEN data
    ELSE FrameWrites([data EXCEPT ![Head(tweens).index] = TweenValue(Head(tweens), easing)],
                     Tail(tweens), easing)

\* the animate* function the switch of playAnimation picks
AnimationOf(type) ==
    IF type = "line" THEN "line"
    ELSE IF type \in {"pie", "doughnut"} THEN "pie"
    ELSE IF type = "radar" THEN "radar"
    ELSE IF type = "polarArea" THEN "polarArea"
    ELSE IF type \in {"scatter", "bubble"} THEN "scatter"
    ELSE "bar"

\* the duration animateValue is given for one element
ValueDuration(kind, duration, length) ==
    IF kind = "bar" THEN RDiv(RInt(duration), RMax(RInt(length), RInt(4)))
    ELSE IF kind = "pie" THEN RMax(RInt(5), RDiv(RInt(duration), RInt(length)))
    ELSE IF kind = "polarArea" THEN RDiv(RInt(duration), RMax(RInt(length), RInt(3)))
    ELSE RInt(duration)

AnimInit ==
    /\ animation \in [currentChartType : ChartTypesAnimated,
                      chartData : {PointsOf(n) : n \in 1..MaxPoints},
                      animationDuration : Durations,
                      animationDelay : Delays,
                      animationStyle : Easings]
    /\ instanceData = animation.chartData
    /\ animTimeouts = <<>>
    /\ animFrames = <<>>
    /\ animPlays = 0

AnimIdle ==
    /\ animation = [currentChartType |-> "bar", chartData |-> PointsOf(0),
                    animationDuration |-> 0, animationDelay |-> 0,
                    animationStyle |-> "linear"]
    /\ instanceData = PointsOf(0)
    /\ animTimeouts = <<>>
    /\ animFrames = <<>>
    /\ animPlays = 0

\* playAnimation: resetAnimation, then the animation of the type 200 ms later
PlayAnimation ==
    /\ animPlays < MaxPlays
    /\ \A i \in 1..Len(animTimeouts) :
           animTimeouts[i].kind = "start" => animTimeouts[i].remaining < StartDelay
    /\ animPlays' = animPlays + 1
    /\ instanceData' = animation.chartData
    /\ animTimeouts' = SetTimeout(animTimeouts,
                                  Timeout(StartDelay, "start", 0, RInt(0), "", RInt(0)))
    /\ UNCHANGED <<animation, animFrames, animOthers>>

\* the timeout of playAnimation: animateBarChart, animateLineChart, ...
StartTimeout ==
    /\ animTimeouts # <<>>
    /\ Head(animTimeouts).remaining = 0
    /\ Head(animTimeouts).kind = "start"
    /\ LET kind == AnimationOf(animation.currentChartType)
           originalData == animation.chartData.data
           originalLabels == animation.chartData.labels
           length == Len(originalData)
           duration == ValueDuration(kind, animation.animationDuration, length)
           zeros == [i \in 1..length |-> RInt(0)]
           each == [i \in 1..length |->
                       Timeout((i - 1) * animation.animationDelay,
                               IF kind = "line" THEN "line"
                               ELSE IF kind = "scatter" THEN "scatter" ELSE "value",
                               i, originalData[i], originalLabels[i], duration)]
       IN  IF kind = "line"
           THEN /\ instanceData' = [labels |-> <<>>, data |-> <<>>]
                /\ animTimeouts' = SetTimeouts(Tail(animTimeouts), each)
                /\ UNCHANGED animFrames
           ELSE IF kind = "scatter"
           THEN /\ instanceData' = [instanceData EXCEPT !.data = <<>>]
                /\ animTimeouts' = SetTimeouts(Tail(animTimeouts), each)
                /\ UNCHANGED animFrames
           ELSE IF kind = "radar"
           THEN /\ instanceData' = [instanceData EXCEPT !.data = zeros]
                /\ animTimeouts' = Tail(animTimeouts)
                /\ animFrames' = animFrames \o
                       [i \in 1..length |-> Tween(i, originalData[i], duration)]
           ELSE /\ instanceData' = [instanceData EXCEPT !.data = zeros]
                /\ animTimeouts' = SetTimeouts(Tail(animTimeouts), each)
                /\ UNCHANGED animFrames
    /\ UNCHANGED <<animation, animPlays, animOthers>>

\* the timeout of one bar, segment or polar area: animateValue starts
ValueTimeout ==
    /\ animTimeouts # <<>>
    /\ Head(animTimeouts).remaining = 0
    /\ Head(animTimeouts).kind = "value"
    /\ animFrames' = Append(animFrames, Tween(Head(animTimeouts).index,
                                              Head(animTimeouts).value,
                                              Head(animTimeouts).duration))
    /\ animTimeouts' = Tail(animTimeouts)
    /\ UNCHANGED <<animation, instanceData, animPlays, animOthers>>

\* the timeout of one point of the line: its label and value are pushed
LineTimeout ==
    /\ animTimeouts # <<>>
    /\ Head(animTimeouts).remaining = 0
    /\ Head(animTimeouts).kind = "line"
    /\ instanceData' = [labels |-> Append(instanceData.labels, Head(animTimeouts).label),
                        data |-> Append(instanceData.data, Head(animTimeouts).value)]
    /\ animTimeouts' = Tail(animTimeouts)
    /\ UNCHANGED <<animation, animFrames, animPlays, animOthers>>

\* the timeout of one point of the scatter chart: the point is pushed
ScatterTimeout ==
    /\ animTimeouts # <<>>
    /\ Head(animTimeouts).remaining = 0
    /\ Head(animTimeouts).kind = "scatter"
    /\ instanceData' = [instanceData EXCEPT !.data = Append(@, Head(animTimeouts).value)]
    /\ animTimeouts' = Tail(animTimeouts)
    /\ UNCHANGED <<animation, animFrames, animPlays, animOthers>>

\* 100 ms pass and the frames in them are rendered: every running loop writes
\* its value, and the loops that reached their end stop
AnimationFrame ==
    /\ animTimeouts # <<>> \/ animFrames # <<>>
    /\ \A i \in 1..Len(animTimeouts) : animTimeouts[i].remaining > 0
    /\ LET later == [i \in 1..Len(animFrames) |->
                        [animFrames[i] EXCEPT !.elapsed = @ + 1]]
       IN  /\ instanceData' = [instanceData EXCEPT
                   !.data = FrameWrites(@, later, animation.animationStyle)]
           /\ animFrames' = SelectSeq(later, TweenGoesOn)
    /\ animTimeouts' = [i \in 1..Len(animTimeouts) |->
                           [animTimeouts[i] EXCEPT !.remaining = @ - 1]]
    /\ UNCHANGED <<animation, animPlays, animOthers>>

AnimNext ==
    \/ PlayAnimation
    \/ StartTimeout
    \/ ValueTimeout
    \/ LineTimeout
    \/ ScatterTimeout
    \/ AnimationFrame

-----------------------------------------------------------------------------
(* ER diagram generator: generateERDiagram and clearAll (part_001).        *)
(* viewMode, which both handlers set to 'visual', is left out.             *)

MaxGenerations == 3

\* the texts typed into the input or loaded as an example
GeneratorTexts == {EnrollmentText, StudentsLine}

\* entities [], relationships [], mermaidCode ''; by is the generation that
\* set the three, 0 for none
NoDiagram == [by |-> 0, entities |-> <<>>, relationships |-> <<>>, mermaidCode |-> ""]

GenInit ==
    /\ genInputText = ""
    /\ isGenerating = FALSE
    /\ generations = {}
    /\ generationCount = 0
    /\ generated = NoDiagram
    /\ clearedRuns = {}

GenIdle == GenInit

\* the textarea's onChange and loadExample: setInputText
SetInputText ==
    /\ UNCHANGED genOthers
    /\ \E text \in GeneratorTexts \cup {""} :
        /\ text # genInputText
        /\ genInputText' = text
    /\ UNCHANGED <<isGenerating, generations, generationCount, generated, clearedRuns>>

\* generateERDiagram up to its await; the button is disabled while
\* isGenerating || !inputText.trim(). The call keeps the inputText of the
\* render it was made from.
GenerateERDiagram ==
    /\ UNCHANGED genOthers
    /\ generationCount < MaxGenerations
    /\ ~isGenerating
    /\ Trim(genInputText) # ""
    /\ isGenerating' = TRUE
    /\ generationCount' = generationCount + 1
    /\ generations' = generations \cup {[run |-> generationCount + 1, text |-> genInputText]}
    /\ UNCHANGED <<genInputText, generated, clearedRuns>>

\* generateERDiagram after the 1000 ms wait, to its end
GenerationDone ==
    /\ UNCHANGED genOthers
    /\ \E generation \in generations :
        /\ generations' = generations \ {generation}
        /\ generated' = Once(parseTextToER(generation.text), LAMBDA result :
                             [by |-> generation.run,
                              entities |-> result.entities,
                              relationships |-> result.relationships,
                              mermaidCode |-> result.mermaidCode])
    /\ isGenerating' = FALSE
    /\ UNCHANGED <<genInputText, generationCount, clearedRuns>>

\* clearAll, the Clear All button; clearedRuns keeps the generations that were
\* waiting when it was clicked
ClearAll ==
    /\ UNCHANGED genOthers
    /\ genInputText' = ""
    /\ generated' = NoDiagram
    /\ clearedRuns' = clearedRuns \cup {generation.run : generation \in generations}
    /\ UNCHANGED <<isGenerating, generations, generationCount>>

GenNext ==
    \/ SetInputText
    \/ GenerateERDiagram
    \/ GenerationDone
    \/ ClearAll

MoreIdle == ValueIdle /\ SelectIdle /\ RecordIdle /\ LoginIdle /\ AnimIdle /\ GenIdle

\* the subsystems up to the aggregation at rest
CoreIdle ==
    CsvIdle /\ ErIdle /\ ChartIdle /\ ExportIdle /\ UploadIdle /\ ParseIdle /\ AggIdle

-----------------------------------------------------------------------------
(* Specifications *)

InitCsv == CsvInit /\ ErIdle /\ ChartIdle /\ ExportIdle /\ UploadIdle /\ ParseIdle /\ AggIdle
    /\ MoreIdle

SpecCsv == InitCsv /\ [][CsvNext]_vars

InitErView == ErInit /\ CsvIdle /\ ChartIdle /\ ExportIdle /\ UploadIdle /\ ParseIdle /\ AggIdle
    /\ MoreIdle

SpecErView == InitErView /\ [][ErNext]_vars

InitErLarge == ErLargeInit /\ CsvIdle /\ ChartIdle /\ ExportIdle /\ UploadIdle /\ ParseIdle /\ AggIdle
    /\ MoreIdle

SpecErLarge == InitErLarge /\ [][ErNext]_vars

InitChart == ChartInit /\ CsvIdle /\ ErIdle /\ ExportIdle /\ UploadIdle /\ ParseIdle /\ AggIdle
    /\ MoreIdle

SpecChart == InitChart /\ [][ChartNext]_vars

SpecFtcChart == InitChart /\ [][FtcChartNext]_vars

InitExport == ExportInit /\ CsvIdle /\ ErIdle /\ ChartIdle /\ UploadIdle /\ ParseIdle /\ AggIdle
    /\ MoreIdle

SpecExport == InitExport /\ [][ExportNext]_vars

InitUpload == UploadInit /\ CsvIdle /\ ErIdle /\ ChartIdle /\ ExportIdle /\ ParseIdle /\ AggIdle
    /\ MoreIdle

SpecUpload == InitUpload /\ [][UploadNext]_vars

InitParse == ParseInit /\ CsvIdle /\ ErIdle /\ ChartIdle /\ ExportIdle /\ UploadIdle /\ AggIdle
    /\ MoreIdle

SpecParse == InitParse /\ [][ParseNext]_vars

InitAggregate ==
    AggInit /\ CsvIdle /\ ErIdle /\ ChartIdle /\ ExportIdle /\ UploadIdle /\ ParseIdle
    /\ MoreIdle

SpecAggregate == InitAggregate /\ [][AggNext]_vars

InitValue == ValueInit /\ CoreIdle /\ SelectIdle /\ RecordIdle /\ LoginIdle /\ AnimIdle /\ GenIdle

SpecValue == InitValue /\ [][ValueNext]_vars

InitSelection == SelectInit /\ CoreIdle /\ ValueIdle /\ RecordIdle /\ LoginIdle /\ AnimIdle /\ GenIdle

SpecSelection == InitSelection /\ [][SelectNext]_vars

InitRecords == RecordInit /\ CoreIdle /\ ValueIdle /\ SelectIdle /\ LoginIdle /\ AnimIdle /\ GenIdle

SpecRecords == InitRecords /\ [][RecordNext]_vars

InitLogin == LoginInit /\ CoreIdle /\ ValueIdle /\ SelectIdle /\ RecordIdle /\ AnimIdle /\ GenIdle

SpecLogin == InitLogin /\ [][LoginNext]_vars

\* every prompt comes to a moment or a response, every request settles
SpecManualLogin ==
    /\ InitLogin
    /\ [][ManualLoginNext]_vars
    /\ WF_vars(PromptNotification \/ PromptResponse)
    /\ WF_vars(FetchDone)
    /\ WF_vars(JsonDone)

InitAnimation ==
    AnimInit /\ CoreIdle /\ ValueIdle /\ SelectIdle /\ RecordIdle /\ LoginIdle /\ GenIdle

SpecAnimation == InitAnimation /\ [][AnimNext]_vars

InitGenerator ==
    GenInit /\ CoreIdle /\ ValueIdle /\ SelectIdle /\ RecordIdle /\ LoginIdle /\ AnimIdle

SpecGenerator == InitGenerator /\ [][GenNext]_vars

-----------------------------------------------------------------------------
(* Claims *)

\* C3: when the user cancels an animated export in progress, the frame loop
\* stops at the next iteration boundary: no HTML file is downloaded for the
\* cancelled export (and so no success status is shown for it).
C3_CancelledExportDownloadsNothing == cancelledRuns \cap htmlDownloads = {}


\* C1: after any sequence of createChart invocations on a page's canvas,
\* overlapping ones included, at most one chart that has not been destroyed
\* is bound to the canvas; no invocation finds the canvas still in use when it
\* creates its chart; and when the invocation that finished last succeeded,
\* exactly one chart is bound to the canvas.
C1_OneLiveChartPerCanvas ==
    \A page \in Pages :
        /\ Cardinality(chartLive[page]) <= 1
        /\ chartOutcome[page] # "canvas-in-use"
        /\ chartOutcome[page] = "created" => Cardinality(chartLive[page]) = 1

\* two overlapping invocations have both finished, the second one creating
\* the chart that is live
C1_Witness ==
    \E page \in Pages :
        /\ chartCallCount[page] >= 2
        /\ chartCalls[page] = {}
        /\ chartCount[page] >= 2
        /\ chartOutcome[page] = "created"
        /\ chartLive[page] = {chartCount[page]}


\* number of quote characters before position i
RECURSIVE QuotesBefore(_, _)
QuotesBefore(line, i) ==
    IF i <= 1 THEN 0
    ELSE QuotesBefore(line, i - 1) + (IF CharAt(line, i - 1) = Quote THEN 1 ELSE 0)

\* positions of the commas that no open double quote encloses
CommasOutsideQuotes(line) ==
    {i \in 1..Len(line) : CharAt(line, i) = Comma /\ QuotesBefore(line, i) % 2 = 0}

CommasInsideQuotes(line) ==
    {i \in 1..Len(line) : CharAt(line, i) = Comma /\ QuotesBefore(line, i) % 2 = 1}

CommaCount(s) == Cardinality({i \in 1..Len(s) : CharAt(s, i) = Comma})

RECURSIVE SumCommas(_)
SumCommas(fields) ==
    IF fields = <<>> THEN 0 ELSE CommaCount(Head(fields)) + SumCommas(Tail(fields))

QuotedCommaKept(fields) ==
    /\ Len(fields) = Cardinality(CommasOutsideQuotes(csvLine)) + 1
    /\ SumCommas(fields) = Cardinality(CommasInsideQuotes(csvLine))
    /\ csvLine = QuotedCommaLine => fields = <<"a,b", "2">>

\* C10: both CSV line tokenizers keep a comma inside a double-quoted field in
\* the field: a line with k commas outside quotes yields k+1 fields, the
\* commas inside quotes all appear in the fields, and the line "a,b",2 yields
\* the two fields a,b and 2 without the surrounding quotes.
C10_QuotedCommaIsFieldText ==
    /\ csvFields.FTC # NotRun => QuotedCommaKept(csvFields.FTC)
    /\ csvFields.AC # NotRun => QuotedCommaKept(csvFields.AC)

C10_Witness ==
    /\ csvLine = QuotedCommaLine
    /\ csvFields.FTC = <<"a,b", "2">>
    /\ csvFields.AC = <<"a,b", "2">>


\* the interaction state of the view
InteractionState ==
    IF draggedItem # NoItem /\ isPanning THEN "dragging-and-panning"
    ELSE IF isPanning THEN "panning"
    ELSE IF draggedItem = NoItem THEN "idle"
    ELSE IF draggedItem.type = "entity" THEN "dragging-entity"
    ELSE "dragging-relationship"

\* C2: for any sequence of pointer events the interaction state is one of
\* idle, dragging-entity, dragging-relationship, panning; no reachable state
\* has both a dragged item and panning active.
C2_DragAndPanExclusive ==
    InteractionState \in {"idle", "dragging-entity", "dragging-relationship", "panning"}

C2_Witness == InteractionState = "panning" /\ erLast = "panStart"

\* screen coordinate of a diagram coordinate under the view transform
ScreenX(x) == RAdd(pan.x, RMul(zoom, x))
ScreenY(y) == RAdd(pan.y, RMul(zoom, y))

\* the entity's 220x60 rectangle lies inside the container
EntityVisible(id) ==
    LET pos == entityPositions[id]
    IN  /\ RLe(RInt(0), ScreenX(pos.x))
        /\ RLe(ScreenX(RAdd(pos.x, RInt(220))), RInt(containerWidth))
        /\ RLe(RInt(0), ScreenY(pos.y))
        /\ RLe(ScreenY(RAdd(pos.y, RInt(60))), RInt(containerHeight))

\* C5: after the layout effect has run for a non-empty set of entities, the
\* zoom is at most 1 and every entity's 220x60 rectangle lies inside the
\* containerWidth x containerHeight viewport under the resulting pan and zoom.
C5_FitViewAfterLayout ==
    erLast = "layout" =>
        /\ RLe(zoom, RInt(1))
        /\ DOMAIN entityPositions = 1..entities
        /\ \A id \in 1..entities : EntityVisible(id)

C5_Witness ==
    /\ erLast = "layout"
    /\ entities = MaxEntities
    /\ RLt(zoom, RInt(1))
    /\ erEvents > 0


\* C4: a page never has more than one file load in progress: a file submitted
\* while a load is outstanding does not start a second one
C4_AtMostOneLoadInProgress ==
    \A page \in Pages : Cardinality(fileLoads[page]) <= 1


\* C6: for the three-line Students / Courses / Enrollment text parseTextToER
\* returns exactly two entities and exactly one relationship, of type
\* many-to-many and labelled "Enrollment"
C6_EnrollmentExample ==
    (inputText = EnrollmentText /\ parsed # NotRun) =>
        /\ Len(parsed.entities) = 2
        /\ Len(parsed.relationships) = 1
        /\ parsed.relationships[1].type = "many-to-many"
        /\ parsed.relationships[1].label = "Enrollment"

\* ---- chart series aggregation ----

\* the records an aggregation reads: at most the first RowLimit, FileToChart's
\* after parseValue
ProcessedRecords ==
    LET data == IF aggregated.by = "FTC" THEN NormalizedData(records) ELSE records
    IN  SubSeq(data, 1, Min(RowLimit, Len(data)))

\* the label column's value converted to string and trimmed
TrimmedLabel(row) == Trim(JsString(row[aggregated.labelCol]))

\* the number a value cell stands for, NaN when it stands for none
NumberOf(cell) == IF cell.t = "number" THEN cell.v ELSE ParseFloat(JsString(cell))

\* the sum of the value column over the records of data[lo..hi] in the group
RECURSIVE GroupSum(_, _, _, _)
GroupSum(data, label, lo, hi) ==
    IF lo > hi THEN RInt(0)
    ELSE IF lo = hi
    THEN (IF TrimmedLabel(data[lo]) = label
          THEN NumberOf(data[lo][aggregated.valueCol]) ELSE RInt(0))
    ELSE LET mid == (lo + hi) \div 2
         IN  RAdd(GroupSum(data, label, lo, mid), GroupSum(data, label, mid + 1, hi))

GroupSize(data, label) ==
    Cardinality({i \in 1..Len(data) : TrimmedLabel(data[i]) = label})

\* C7: the records are grouped by the label column's value converted to string
\* and trimmed; every output label is such a group, its value is the sum of the
\* value column over the group when every value is a number and the number of
\* records of the group when none is (FileToChart without a series column,
\* AnimateChart with both columns selected).
C7_GroupedByTrimmedLabel ==
    ( /\ aggregated # NotRun
      /\ aggregated.by \in {"FTC", "AC-selected"}
      /\ aggregated.seriesCol = ""
      /\ Len(records) > 0 ) =>
        LET data == ProcessedRecords
            labels == aggregated.result.labels
            values == aggregated.result.datasets[1].data
            numeric == \A i \in 1..Len(data) : ~IsNaN(NumberOf(data[i][aggregated.valueCol]))
            text == \A i \in 1..Len(data) : IsNaN(NumberOf(data[i][aggregated.valueCol]))
        IN  \A p \in 1..Len(labels) :
                /\ GroupSize(data, labels[p]) > 0
                /\ numeric => values[p] = GroupSum(data, labels[p], 1, Len(data))
                /\ text => values[p] = RInt(GroupSize(data, labels[p]))

\* what the aggregation that ran returns for another list of records
SeriesOf(data) ==
    IF aggregated.by = "FTC"
    THEN FtcProcessDataForChart(NormalizedData(data), aggregated.labelCol,
                                aggregated.valueCol, aggregated.seriesCol)
    ELSE IF aggregated.by = "AC-selected"
    THEN AcProcessSelectedColumns(data, aggregated.labelCol, aggregated.valueCol)
    ELSE AcProcessDataForChart(data, aggregated.labelCol, aggregated.valueCol)

\* C8: the series depends on the first 1000 records only; a list longer than
\* that gives the labels, values and dataset label that its first 1000 records
\* give on their own.
C8_OnlyFirstThousandRecords ==
    (aggregated # NotRun /\ Len(records) > RowLimit) =>
        aggregated.result = SeriesOf(SubSeq(records, 1, RowLimit))

\* the labels under which the aggregation that ran groups the records
GroupLabels ==
    LET data == ProcessedRecords
    IN  {IF aggregated.by = "FTC"
         THEN Trim(JsString(OrElse(data[i][aggregated.labelCol], Str("Unknown"))))
         ELSE AcLabel(data[i], IF aggregated.labelCol = "" THEN Columns[1]
                               ELSE aggregated.labelCol, i) : i \in 1..Len(data)}

LabelLimit == IF aggregated.by = "FTC" THEN FtcLabelLimit ELSE AcLabelLimit

\* C9: a series has at most 50 labels on FileToChart and at most 30 on
\* AnimateChart; when the records have more groups than that, the series is
\* returned all the same, full to the ceiling, and no status message is added.
C9_LabelCeiling ==
    aggregated # NotRun =>
        /\ Len(aggregated.result.labels) <= LabelLimit
        /\ Cardinality(GroupLabels) > LabelLimit =>
              /\ aggregated.result.returned = "series"
              /\ aggregated.result.status = "none"
              /\ Len(aggregated.result.labels) = LabelLimit

C9_Witness ==
    /\ aggregated # NotRun
    /\ aggregated.by = "FTC"
    /\ Cardinality(GroupLabels) > FtcLabelLimit
    /\ Len(aggregated.result.labels) = FtcLabelLimit
    /\ aggregated.result.status = "none"

\* ---- escaped quotes in the CSV tokenizers ----

\* the doubled quotes of the line that stand inside a quoted section, read from
\* index i on: the first quote of each pair
RECURSIVE EscapedQuotes(_, _, _)
EscapedQuotes(line, i, inQuotes) ==
    IF i > Len(line) THEN {}
    ELSE IF CharAt(line, i) # Quote THEN EscapedQuotes(line, i + 1, inQuotes)
    ELSE IF ~inQuotes THEN EscapedQuotes(line, i + 1, TRUE)
    ELSE IF i + 1 <= Len(line) /\ CharAt(line, i + 1) = Quote
    THEN {i} \cup EscapedQuotes(line, i + 2, TRUE)
    ELSE EscapedQuotes(line, i + 1, FALSE)

QuoteCount(s) == Cardinality({i \in 1..Len(s) : CharAt(s, i) = Quote})

RECURSIVE SumQuotes(_)
SumQuotes(fields) ==
    IF fields = <<>> THEN 0 ELSE QuoteCount(Head(fields)) + SumQuotes(Tail(fields))

EscapedQuoteKept(fields) ==
    SumQuotes(fields) = Cardinality(EscapedQuotes(csvLine, 1, FALSE))

\* C11: in both tokenizers a doubled quote inside a quoted field is an escaped
\* quote: each one puts exactly one quote character into the field values, and
\* no other quote of the line reaches them.
C11_DoubledQuoteIsEscapedQuote ==
    /\ csvFields.FTC # NotRun => EscapedQuoteKept(csvFields.FTC)
    /\ csvFields.AC # NotRun => EscapedQuoteKept(csvFields.AC)

\* ---- typed values ----

\* the raw value is an integer number
IsIntegerValue(cell) == cell.t = "number" /\ IsInteger(cell.v)

\* the raw value is the text true or false in some casing
IsBooleanText(cell) == cell.t = "string" /\ ToLowerCase(cell.v) \in {"true", "false"}

\* what the claim says parseValue gives for the raw value and for its text
TypedAsStated(typed) ==
    /\ IsIntegerValue(rawValue) => typed = rawValue
    /\ (rawValue \in {Null, Undefined, Str("")}) => typed = Null
    /\ IsBooleanText(rawValue) => typed = Bool(ToLowerCase(rawValue.v) = "true")

\* C12: parseValue gives the integer n both for an integer n and for its decimal
\* string String(n); it gives null for the empty string, null and undefined,
\* and the boolean for any casing of true and false.
C12_IntegerAndItsStringAgree ==
    /\ typedValue.json # NotRun => TypedAsStated(typedValue.json)
    /\ typedValue.csv # NotRun => TypedAsStated(typedValue.csv)

\* ---- failed uploads ----

\* this step ends a FileToChart upload in failure: the size check refuses the
\* file, or the catch block has run for a file that was being read
FtcUploadFails ==
    /\ uploadPage = "FTC"
    /\ \/ /\ fileLoadCount'["FTC"] = fileLoadCount["FTC"] + 1
          /\ fileLoads' = fileLoads
       \/ \E l \in fileLoads["FTC"] :
              /\ FtcFileKind(l.file) = "failed"
              /\ fileLoads'["FTC"] = fileLoads["FTC"] \ {l}

\* C13: a failed upload on the FileToChart page leaves the selected file, the
\* column selection, the chart data and the uploaded-file list as they were.
C13_FailedUploadKeepsState ==
    [][FtcUploadFails =>
           /\ selectedFile' = selectedFile
           /\ selectedColumns'["FTC"] = selectedColumns["FTC"]
           /\ chartData'["FTC"] = chartData["FTC"]
           /\ uploadedFiles' = uploadedFiles]_vars

\* the lines of the text that are not blank
NonBlankLineCount(text) ==
    Once(Split(text, "\n"), LAMBDA lines :
         Cardinality({i \in 1..Len(lines) : Trim(lines[i]) # ""}))

\* the file is handed to the JSON parser and is not JSON, or to the CSV parser
\* and has fewer than two lines
MalformedText(file) ==
    \/ FileExtension(file.name) \in {"json", "jsonl"} /\ ~JsonParse(file.text).ok
    \/ FileExtension(file.name) \in {"csv", "tsv"} /\ NonBlankLineCount(file.text) < 2

\* the message of the error the parser of the page raises for the file, "" when
\* it raises none
ParserError(page, file) ==
    IF FileExtension(file.name) \in {"json", "jsonl"}
    THEN (IF page = "FTC" THEN FtcProcessJSON(file.text).error
          ELSE AcParseJson(file.text).error)
    ELSE (IF page = "FTC" THEN FtcProcessCSV(file.text).error
          ELSE AcParseCSV(file.text).error)

\* the step in which the upload handler gets the result of the parser for load l
ParserReturns(page, l) ==
    /\ l \in fileLoads[page]
    /\ l \notin fileLoads'[page]
    /\ IF page = "FTC" THEN FtcFileTextDone ELSE AcReaderLoad

\* an error status message that carries the text is added (FileToChart) or
\* shown (AnimateChart) in the step
ErrorShown(page, text) ==
    IF page = "FTC"
    THEN \E m \in statusMessages' \ statusMessages :
             m.type = "error" /\ EndsWith(m.message, text)
    ELSE statusMessage'.type = "error" /\ EndsWith(statusMessage'.message, text)

\* C14: text that is not valid JSON, and CSV text with fewer than two lines,
\* make the parser raise an error; the upload handler then shows an error status
\* message carrying the text of that error, makes no uploaded-file record and no
\* chart data from the input, and ends with the loading flag false.
C14_MalformedTextIsReported ==
    [][\A page \in Pages : \A l \in fileLoads[page] :
           ParserReturns(page, l) /\ MalformedText(l.file)
           => /\ ParserError(page, l.file) # ""
              /\ ErrorShown(page, ParserError(page, l.file))
              /\ uploadedFiles' = uploadedFiles
              /\ selectedFile' # l.load
              /\ currentSheetData' # l.load
              /\ chartData'[page] # l.load
              /\ isLoading'[page] = FALSE]_vars

\* FileToChart has reported a text that is not JSON and a CSV text of one line
C14_Witness ==
    /\ uploadPage = "FTC"
    /\ fileLoads["FTC"] = {}
    /\ fileLoadCount["FTC"] = 2
    /\ \E m \in statusMessages :
           m.message = "Invalid JSON format. Please ensure the file contains valid JSON."
    /\ \E m \in statusMessages :
           m.message = "CSV file must contain at least a header row and one data row."
    /\ uploadedFiles = <<>>
    /\ ~isLoading["FTC"]

\* AnimateChart shows the error of a CSV text of one line
C14_WitnessAnimateChart ==
    /\ uploadPage = "AC"
    /\ fileLoads["AC"] = {}
    /\ statusMessage
         = Status("Error parsing file: CSV file must have at least a header and one data row",
                  "error")
    /\ chartData["AC"] = NoFile
    /\ ~isLoading["AC"]

\* the records the chart of the page is made from
SourceOf(state) ==
    IF "selectedFile" \in DOMAIN state THEN state.selectedFile ELSE state.currentSheetData

\* the chart data the page derives from the selection of the state
DerivedChartData(page, state) ==
    IF page = "FTC"
    THEN FtcChartData(SourceOf(state).data, state.selectedColumns, state.chartType)
    ELSE AcProcessSelectedColumns(SourceOf(state).data, state.selectedColumns.label,
                                  state.selectedColumns.value)

\* a file, a label column and a value column are selected
SelectionMade(state) ==
    /\ SourceOf(state) # NoSource
    /\ state.selectedColumns.label # ""
    /\ state.selectedColumns.value # ""

\* C15: on the chart pages the chart data (labels and datasets) is recomputed
\* from the source records whenever the selected file, the label, value or
\* series column or the chart type changes: with a file, a label column and a
\* value column selected, the chart data is what the current selection gives.
C15_ChartDataFollowsSelection ==
    SelectionMade(viewState) => viewState.chartData = DerivedChartData(viewPage, viewState)

\* the same on AnimateChart alone
ChartDataFollowsSelectionAc ==
    viewPage = "AC" => C15_ChartDataFollowsSelection

\* the cell reads as a finite number
ParsesAsFiniteNumber(cell) == IsFiniteNumber(ParseFloat(JsString(cell)))

\* the sampled values of the column read as finite numbers
NumericColumn(file, col) ==
    \A i \in 1..Min(SampleSize, Len(file.data)) : ParsesAsFiniteNumber(file.data[i][col])

\* the first column other than the label column whose sampled values read as
\* finite numbers, the second column when there is none
StatedValueColumn(file) ==
    LET numeric == SelectSeq(file.headers,
                             LAMBDA col : col # file.headers[1] /\ NumericColumn(file, col))
    IN  IF Len(numeric) > 0 THEN numeric[1] ELSE file.headers[2]

\* the columns selected for the file of the state are the stated ones
AutoSelectedAsStated(state) ==
    /\ state.selectedColumns.label = SourceOf(state).headers[1]
    /\ state.selectedColumns.value = StatedValueColumn(SourceOf(state))
    /\ state.selectedColumns.value # state.selectedColumns.label

\* C16: when no columns are chosen explicitly, the label column is the first
\* column and the value column is the first other column whose sampled values
\* parse as finite numbers, or the second column when there is none; the value
\* column is never the label column.
C16_AutoSelectedColumns ==
    [][(FtcLoadFile \/ AcLoadFile) => AutoSelectedAsStated(viewState')]_vars

\* the same, for the files in which the second column is a number column or no
\* column is
AutoSelectedForPlainFiles ==
    [][(FtcLoadFile \/ AcLoadFile)
       => (SourceOf(viewState').name \in {"sales", "pairs"}
           => AutoSelectedAsStated(viewState'))]_vars

\* the places of the list-valued properties of the object
ListValued(object) == {i \in 1..Len(object.v) : object.v[i].value.t = "array"}

\* the elements of the first list-valued property of the object if it has one,
\* otherwise the object as the one record
StatedRecords(object) ==
    IF ListValued(object) # {} THEN object.v[SetMin(ListValued(object))].value.v
    ELSE <<object>>

\* what the reader of the page gives for the records
ReadAs(page, data) == IF page = "FTC" THEN FtcNormalize(data) ELSE Parsed(<<>>, data)

\* the text is JSON with an object at the top
TopLevelObject(text) == JsonParse(text).ok /\ JsonParse(text).value.t = "object"

\* C17: for JSON whose top-level value is an object and not a list, the parsed
\* records are the elements of the first list-valued property of the object if
\* one of its properties is list-valued, and otherwise the object itself as the
\* one record.
C17_ObjectAtTopLevel ==
    \A page \in Pages :
        (jsonRecords[page] # NotRun /\ TopLevelObject(jsonText))
        => jsonRecords[page] = ReadAs(page, StatedRecords(JsonParse(jsonText).value))

\* the same for AnimateChart and the objects whose first property is the
\* list-valued one, or that have none
FirstPropertyUnwrapped ==
    (/\ jsonRecords.AC # NotRun
     /\ TopLevelObject(jsonText)
     /\ ListValued(JsonParse(jsonText).value) = {} \/ 1 \in ListValued(JsonParse(jsonText).value))
    => jsonRecords.AC = ReadAs("AC", StatedRecords(JsonParse(jsonText).value))

\* the same for FileToChart and the objects without a list-valued property
ObjectWrapped ==
    (/\ jsonRecords.FTC # NotRun
     /\ TopLevelObject(jsonText)
     /\ ListValued(JsonParse(jsonText).value) = {})
    => jsonRecords.FTC = ReadAs("FTC", StatedRecords(JsonParse(jsonText).value))

\* the calls made by the attempt, in order
AttemptCalls(attempt) == SelectSeq(authCalls, LAMBDA call : call.attempt = attempt)

\* the answer is an envelope with success true and a payload
SuccessWithPayload(answer) ==
    /\ answer.t = "object"
    /\ Property(answer, "success") = Bool(TRUE)
    /\ Property(answer, "data").t = "object"

\* the answer is an envelope with an error string (an empty one counts as none)
HasErrorString(answer) ==
    /\ answer.t = "object"
    /\ Property(answer, "error").t = "string"
    /\ Property(answer, "error").v # ""

\* the generic messages of the button
FallbackMessages ==
    {"Login failed", "Network error during login", "Development login failed"}

\* the calls of an attempt for its answer are the stated ones
CallsAsStated(calls, answer) ==
    IF SuccessWithPayload(answer)
    THEN calls = <<Call(calls[1].attempt, "login", Property(answer, "data")),
                   Call(calls[1].attempt, "onSuccess", Undefined)>>
    ELSE /\ Len(calls) = 1
         /\ calls[1].name = "onError"
         /\ IF HasErrorString(answer) THEN calls[1].arg = Property(answer, "error")
            ELSE calls[1].arg.t = "string" /\ calls[1].arg.v \in FallbackMessages

-----------------------------------------------------------------------------
(* C19: the chart instance after the animation *)

\* every timeout and every frame of the animations started so far has fired
AnimationAtRest == animPlays > 0 /\ animTimeouts = <<>> /\ animFrames = <<>>

\* C19: after playAnimation, once every staggered timeout and animation frame
\* has fired, the labels and the data array of the chart instance equal those of
\* chartData, for every chart type, also when Play was pressed again before the
\* animation before it had finished.
C19_InstanceEqualsTargetAtRest == AnimationAtRest => instanceData = animation.chartData

\* the same for one click on Play Animation
InstanceEqualsTargetAfterOnePlay ==
    AnimationAtRest /\ animPlays = 1 => instanceData = animation.chartData

\* the same for the animations that write by index
InstanceEqualsTargetForValues ==
    AnimationAtRest /\ AnimationOf(animation.currentChartType) \notin {"line", "scatter"}
        => instanceData = animation.chartData

\* the elements of one animation are due in index order
DueInIndexOrder ==
    animPlays = 1 =>
        \A i, j \in 1..Len(animTimeouts) :
            i < j => animTimeouts[i].index <= animTimeouts[j].index

-----------------------------------------------------------------------------
(* C20: status messages and their timers *)

\* showStatus starts a timer for the messages of these types
TimedTypes == {"success", "warning"}

\* a 5 s timer of showStatus takes a message off the display
TimerRemovesStatus == StatusTimer /\ statusMessage # NoStatus

\* C20: status messages are expired by their own timers: a timer that fires
\* removes the message it was started for and never a different message shown
\* later, so the message a timer removes is one that started a timer.
C20_TimerRemovesItsOwnMessage ==
    [][TimerRemovesStatus => statusMessage.type \in TimedTypes]_vars

\* FileToChart: a timer removes one message and leaves the others
FtcTimerRemovesOneMessage ==
    [][FtcStatusMessageTimer =>
          /\ statusMessages' \subseteq statusMessages
          /\ Cardinality(statusMessages') = Cardinality(statusMessages) - 1
          /\ statusCount' = statusCount]_vars

-----------------------------------------------------------------------------
(* C21: the order of the relationship extraction steps *)

\* the lines parseTextToER works on
ParsedLines == TextLines(inputText)

\* the line at the 0-based position index matches the explicit pattern
LineMatchesExplicit(index) == ExplicitMatch(Trim(ParsedLines[index + 1])).matched

\* the keyword fallback pushed rel for the line at position index
FromFallback(rel, index) ==
    rel.id = rel.fromEntity \o "-" \o rel.toEntity \o "-" \o ToString(index)

\* phase 3 pushed rel
FkInferred(rel) == rel.id = rel.fromEntity \o "-" \o rel.toEntity \o "-fk-infer"

\* what phase 2 finds in the whole text
FoundByLines ==
    ParseRelationships(<<>>, ParseEntities(<<>>, ParsedLines), ParsedLines, 0)

\* C21: relationship extraction goes in priority order: a line that matches
\* the explicit pattern is not processed by the keyword fallback, and
\* foreign-key inference adds relationships only when the explicit and keyword
\* steps found none in the whole text, so a result never mixes fk-inferred
\* relationships with others.
C21_ExtractionInPriorityOrder ==
    parsed # NotRun =>
        /\ \A n \in 1..Len(parsed.relationships), index \in 0..(Len(ParsedLines) - 1) :
              LineMatchesExplicit(index) => ~FromFallback(parsed.relationships[n], index)
        /\ (\E n \in 1..Len(parsed.relationships) : FkInferred(parsed.relationships[n]))
              => /\ FoundByLines = <<>>
                 /\ \A n \in 1..Len(parsed.relationships) : FkInferred(parsed.relationships[n])

\* a line matched the explicit pattern, holds a keyword and names two entities,
\* and its explicit relationship is in the result
C21_Witness ==
    /\ parsed # NotRun
    /\ \E index \in 0..(Len(ParsedLines) - 1) :
          /\ LineMatchesExplicit(index)
          /\ \E keyword \in relationshipKeywords : Includes(ParsedLines[index + 1], keyword)
          /\ \E n \in 1..Len(parsed.relationships) :
                /\ parsed.relationships[n] =
                       ExplicitRelationship(ExplicitMatch(Trim(ParsedLines[index + 1])))
                /\ Includes(ParsedLines[index + 1], parsed.relationships[n].fromEntity)
                /\ Includes(ParsedLines[index + 1], parsed.relationships[n].toEntity)

\* foreign-key inference gave the relationships of the result
FkInferenceApplied ==
    /\ parsed # NotRun
    /\ Len(parsed.relationships) > 0
    /\ FkInferred(parsed.relationships[1])

-----------------------------------------------------------------------------
(* C22: duplicate relationships *)

\* two relationships connect the same pair of entities, in either direction
SamePair(r, q) ==
    \/ r.fromEntity = q.fromEntity /\ r.toEntity = q.toEntity
    \/ r.fromEntity = q.toEntity /\ r.toEntity = q.fromEntity

\* C22: the relationship list returned by parseTextToER never holds two
\* relationships that connect the same pair of entities, in either direction,
\* with the same type.
C22_NoDuplicateRelationships ==
    parsed # NotRun =>
        \A m, n \in 1..Len(parsed.relationships) :
            m # n => ~(/\ SamePair(parsed.relationships[m], parsed.relationships[n])
                       /\ parsed.relationships[m].type = parsed.relationships[n].type)

\* the same for the results that phase 2 made
NoDuplicatesFromLines ==
    (parsed # NotRun /\ FoundByLines # <<>>) =>
        \A m, n \in 1..Len(parsed.relationships) :
            m # n => ~(/\ SamePair(parsed.relationships[m], parsed.relationships[n])
                       /\ parsed.relationships[m].type = parsed.relationships[n].type)

-----------------------------------------------------------------------------
(* C23: the key flags of an attribute *)

\* the flags the statement gives an attribute of this name
KeyFlagsByName(attribute) ==
    /\ attribute.isPrimaryKey = (EndsWith(attribute.name, "id") /\ ~Includes(attribute.name, "_id"))
    /\ attribute.isForeignKey = Includes(attribute.name, "_id")

\* C23: for every attribute parsed by parseTextToER, isPrimaryKey is true
\* exactly when the name ends in 'id' and does not contain '_id', and
\* isForeignKey is true exactly when the name contains '_id'; no attribute is
\* flagged both primary and foreign key.
C23_KeyFlagsFollowName ==
    parsed # NotRun =>
        \A e \in 1..Len(parsed.entities) :
            \A a \in 1..Len(parsed.entities[e].attributes) :
                /\ KeyFlagsByName(parsed.entities[e].attributes[a])
                /\ ~(/\ parsed.entities[e].attributes[a].isPrimaryKey
                     /\ parsed.entities[e].attributes[a].isForeignKey)

\* no attribute is flagged both primary and foreign key
NeverBothKeys ==
    parsed # NotRun =>
        \A e \in 1..Len(parsed.entities) :
            \A a \in 1..Len(parsed.entities[e].attributes) :
                ~(/\ parsed.entities[e].attributes[a].isPrimaryKey
                  /\ parsed.entities[e].attributes[a].isForeignKey)

-----------------------------------------------------------------------------
(* C24: the diagram text and the returned model *)

CardinalityTokens == {"||--||", "||--o{", "}o--o{"}

\* the lines of the diagram text
DiagramLines(code) == Split(code, "\n")

\* the lines that close an entity block
BlockCount(code) ==
    Cardinality({i \in 1..Len(DiagramLines(code)) : DiagramLines(code)[i] = "    }"})

\* the relationship lines: two names with a cardinality token between them
RelationshipLineCount(code) ==
    Cardinality({i \in 1..Len(DiagramLines(code)) :
                    \E token \in CardinalityTokens :
                        Includes(DiagramLines(code)[i], " " \o token \o " ")})

\* the line of the diagram text for a relationship of the model
RelationshipLine(rel, entityMap) ==
    "    " \o MermaidName(EntityById(entityMap, rel.fromEntity)) \o " "
    \o (IF rel.type = "one-to-one" THEN "||--||"
        ELSE IF rel.type = "one-to-many" THEN "||--o{" ELSE "}o--o{")
    \o " " \o MermaidName(EntityById(entityMap, rel.toEntity))
    \o " : \"" \o rel.label \o "\""

\* C24: the diagram text is equivalent to the returned model: one entity block
\* per returned entity, exactly one relationship line per returned relationship
\* with ||--|| for one-to-one, ||--o{ for one-to-many and }o--o{ for
\* many-to-many, and every returned relationship has one of these three types.
C24_DiagramTextMatchesModel ==
    parsed # NotRun =>
        /\ BlockCount(parsed.mermaidCode) = Len(parsed.entities)
        /\ RelationshipLineCount(parsed.mermaidCode) = Len(parsed.relationships)
        /\ \A n \in 1..Len(parsed.relationships) :
              /\ parsed.relationships[n].type \in {"one-to-one", "one-to-many", "many-to-many"}
              /\ \E i \in 1..Len(DiagramLines(parsed.mermaidCode)) :
                    DiagramLines(parsed.mermaidCode)[i] =
                        RelationshipLine(parsed.relationships[n], parsed.entities)

\* the same for the results whose relationships have one of the three types
DiagramTextMatchesTypedModel ==
    (/\ parsed # NotRun
     /\ \A n \in 1..Len(parsed.relationships) :
           parsed.relationships[n].type \in {"one-to-one", "one-to-many", "many-to-many"})
        => /\ BlockCount(parsed.mermaidCode) = Len(parsed.entities)
           /\ RelationshipLineCount(parsed.mermaidCode) = Len(parsed.relationships)
           /\ \A n \in 1..Len(parsed.relationships) :
                 \E i \in 1..Len(DiagramLines(parsed.mermaidCode)) :
                     DiagramLines(parsed.mermaidCode)[i] =
                         RelationshipLine(parsed.relationships[n], parsed.entities)

\* ---- FileToChart: the chart that is marked ready ----

\* the chart.js chart bound to the FileToChart canvas
FtcBoundChart == GetChart(chartLive["FTC"])

\* C25: on the FileToChart page, whenever isChartReady is true and
\* chartInstance is not null, chartInstance is the live chart bound to the
\* canvas, for every interleaving of createChart calls, ready timers,
\* selectFile and deleteFile.
C25_ReadyInstanceIsBoundChart ==
    (isChartReady /\ chartInstance["FTC"] # NoChart)
        => chartInstance["FTC"] = FtcBoundChart

\* ---- AnimateChart: the frame loops of the animated export ----

\* C26: at most one frame-capture loop of the animated export is running on
\* the AnimateChart chart at any time, for any sequence of Export and Cancel
\* Export clicks.
C26_AtMostOneFrameLoop == Cardinality(exportRuns) <= 1

\* as long as isExportingGif is set, exportGif returns at once, so no second
\* loop is started without a Cancel Export click
OneFrameLoopWithoutCancel ==
    cancelledRuns = {} => Cardinality(exportRuns) <= 1

\* ---- the fallback Google sign-in ----

\* a manual sign-in was started and isLoading is set
ManualLoginLoading == authAttempts # <<>> /\ authIsLoading

\* C27: after a manual sign-in is started with handleManualLogin, isLoading
\* eventually returns to false on every outcome: prompt not displayed or
\* skipped, prompt dismissed, a response with or without a credential, a
\* network failure, or the Google API object being absent.
C27_LoadingEventuallyEnds == ManualLoginLoading ~> ~authIsLoading

\* a manual sign-in whose response carried a credential ends with isLoading false
RequestEndsLoading ==
    (\E attempt \in 1..Len(authAttempts) : authAttempts[attempt].stage \in {"fetch", "json"})
        ~> ~authIsLoading

\* ---- ER diagram generator: Clear All ----

\* C28: after clearAll, entities, relationships and the diagram text stay
\* empty until the user starts a new generation: a generation that was
\* started before clearAll and finishes after it does not repopulate them.
C28_ClearedGenerationSetsNothing == generated.by \notin clearedRuns

\* whatever is shown was made from the text of the generation that set it,
\* and nothing is shown before a generation has finished
GeneratedFromItsText ==
    /\ generated.by = 0 => generated = NoDiagram
    /\ generated.by # 0 => \E text \in GeneratorTexts :
          /\ generated.entities = parseTextToER(text).entities
          /\ generated.mermaidCode = parseTextToER(text).mermaidCode

\* ---- ER diagram view: the zoom factor ----

\* C29: in the ER diagram view the zoom factor stays within [0.1, 3] in every
\* reachable state, for any sequence of wheel events, zoom button clicks,
\* fit-view resets and re-layouts.
C29_ZoomWithinLimits == RLe(Rat(1, 10), zoom) /\ RLe(zoom, RInt(3))

\* ---- AnimateChart: the numbers of a series ----

\* the values of the series that was made
SeriesValues ==
    {aggregated.result.datasets[d].data[p] :
        d \in 1..Len(aggregated.result.datasets),
        p \in 1..Len(aggregated.result.labels)}

\* C30: every value of a chart series produced on the AnimateChart page is a
\* finite number and never NaN, for any cell content: a cell that does not
\* parse directly contributes the number extracted by the regular expression
\* with commas stripped, or the default when nothing numeric can be extracted.
C30_SeriesValuesFinite ==
    ( /\ aggregated # NotRun
      /\ aggregated.by \in {"AC", "AC-selected"}
      /\ aggregated.result.returned = "series" ) =>
        \A value \in SeriesValues : IsFiniteNumber(value)

\* the series is finite whenever no value cell is made of the characters of
\* the regular expression without a number among them
SeriesFiniteWithoutBareSigns ==
    ( /\ aggregated # NotRun
      /\ aggregated.by \in {"AC", "AC-selected"}
      /\ aggregated.result.returned = "series"
      /\ \A i \in 1..Len(records) : \A column \in DOMAIN records[i] :
            records[i][column] # Str("-") ) =>
        \A value \in SeriesValues : IsFiniteNumber(value)

=============================================================================
